---- MODULE Spec2Model ----
(***************************************************************************)
(* A model of the cloudflare-redirect-worker: the in-memory failure rate   *)
(* limiter (src/src/ratelimit.js), the credential resolver and the request *)
(* pipeline of the worker (src/src/index.js), the Basic-Auth verifier      *)
(* (src/src/auth.js) and the host resolver (host.js).                      *)
(*                                                                         *)
(* JavaScript strings are modelled as sequences of one-character strings,  *)
(* so that concatenation, slicing, prefix and suffix tests are computed    *)
(* as the code computes them.                                              *)
(***************************************************************************)
EXTENDS Integers, Sequences, FiniteSets, TLC

VARIABLES
    RATE_LIMIT_BUCKET,  \* the Map of ratelimit.js, as the sequence of its entries in insertion order
    configCache,        \* the parsed configuration index.js caches, or Null
    lastConfigHash,     \* the hash of the configuration the cache was parsed from, or Null
    now,                \* the value Date.now() returns, in milliseconds
    last,               \* the last operation performed, its arguments and what it returned
    series,             \* observer: the registered failures of one pair in its current window
    suspended,          \* the handlers waiting at the await of fetch, each with what it holds
    checks              \* observer: the calls of checkBasicAuth in the life of the pair's entry

vars == <<RATE_LIMIT_BUCKET, configCache, lastConfigHash, now, last, series, suspended, checks>>

----------------------------------------------------------------------------
(* Constants of ratelimit.js *)

RATE_LIMIT_WINDOW_MS == 10 * 60 * 1000

MAX_FAILED_ATTEMPTS == 10

MAX_FAILED_ATTEMPTS_UNKNOWN == 3

MAX_AUTH_HEADER_LENGTH == 4096

\* 10_000 in the source; scaled down so that a full table is reachable.
MAX_RATE_LIMIT_KEYS == 2

----------------------------------------------------------------------------
(* Bounds of the model *)

\* The clock runs over MaxWindows rate-limit windows.
MaxWindows == 1

\* A direct caller of registerFailedAttempt stops once a key is this far above its threshold.
MaxOver == 0

\* The values the clock takes: the start of each window and one millisecond later.
TimePoints == { a + b * RATE_LIMIT_WINDOW_MS : a \in {0, 1}, b \in 0..MaxWindows }

----------------------------------------------------------------------------
(* Values *)

UNKNOWN == <<"u", "n", "k", "n", "o", "w", "n">>

\* The pairs (client identifier, subdomain) handed to the rate limiter.
Pairs == { <<UNKNOWN, <<"a">> >>, <<UNKNOWN, <<"m">> >>, << <<"1", ".", "2">>, <<"a">> >> }

----------------------------------------------------------------------------
(* JavaScript strings and the String methods the code uses *)

\* The printable ASCII characters in code order: Chars[i] has char code i + 31
\* (the grave accent, code 96, is written out).
Chars == <<" ", "!", "\"", "#", "$", "%", "&", "'", "(", ")", "*", "+", ",", "-", ".", "/",
           "0", "1", "2", "3", "4", "5", "6", "7", "8", "9", ":", ";", "<", "=", ">", "?",
           "@", "A", "B", "C", "D", "E", "F", "G", "H", "I", "J", "K", "L", "M", "N", "O",
           "P", "Q", "R", "S", "T", "U", "V", "W", "X", "Y", "Z", "[", "\\", "]", "^", "_",
           "grave", "a", "b", "c", "d", "e", "f", "g", "h", "i", "j", "k", "l", "m", "n", "o",
           "p", "q", "r", "s", "t", "u", "v", "w", "x", "y", "z", "{", "|", "}", "~">>

\* A decoded byte that is no printable ASCII character (the model keeps no other characters).
OtherChar == "\\uFFFD"

\* The char code of each character of the model.
CharCodes == [c \in { Chars[i] : i \in 1..Len(Chars) } |-> 31 + (CHOOSE i \in 1..Len(Chars) : Chars[i] = c)]

\* String.prototype.charCodeAt, for one character.
charCode(c) == IF c \in DOMAIN CharCodes THEN CharCodes[c] ELSE 65533

\* String.fromCharCode, for one byte.
fromCharCode(n) == IF n >= 32 /\ n <= 126 THEN Chars[n - 31] ELSE OtherChar

\* JS undefined, as an environment value or a header that is not set: no string equals it.
Undefined == <<"undefined">>

\* typeof v === "string"
IsString(v) == v # Undefined

\* The truthiness of a string or undefined: "" and undefined are falsy.
Truthy(v) == v # Undefined /\ v # <<>>

\* a || b
OrElse(a, b) == IF Truthy(a) THEN a ELSE b

\* s.slice(from) and s.slice(from, to) with 0-based bounds, 0 <= from.
SliceFrom(s, from) == SubSeq(s, from + 1, Len(s))

Slice(s, from, to) == SubSeq(s, from + 1, to)

startsWith(s, prefix) ==
    Len(prefix) <= Len(s) /\ SubSeq(s, 1, Len(prefix)) = prefix

endsWith(s, suffix) ==
    Len(suffix) <= Len(s) /\ SubSeq(s, Len(s) - Len(suffix) + 1, Len(s)) = suffix

\* s.includes(part)
includes(s, part) ==
    \E i \in 0..(Len(s) - Len(part)) : SubSeq(s, i + 1, i + Len(part)) = part

\* s.indexOf(c) for a character c: 0-based, -1 when c does not occur.
indexOf(s, c) ==
    IF \E i \in 1..Len(s) : s[i] = c
    THEN (CHOOSE i \in 1..Len(s) : s[i] = c /\ \A j \in 1..(i - 1) : s[j] # c) - 1
    ELSE -1

\* Math.max
Max(a, b) == IF a >= b THEN a ELSE b

MapChars(s, f(_)) == [i \in 1..Len(s) |-> f(s[i])]

UpperOf(c) ==
    IF charCode(c) >= 97 /\ charCode(c) <= 122 THEN fromCharCode(charCode(c) - 32) ELSE c

LowerOf(c) ==
    IF charCode(c) >= 65 /\ charCode(c) <= 90 THEN fromCharCode(charCode(c) + 32) ELSE c

toUpperCase(s) == MapChars(s, UpperOf)

toLowerCase(s) == MapChars(s, LowerOf)

\* s.replace(/\./g, '_')
DotsToUnderscores(s) == MapChars(s, LAMBDA c : IF c = "." THEN "_" ELSE c)

\* The characters \s matches, among those of the model.
IsWhitespace(c) == c = " "

\* s.replace(/\s+/g, "")
StripWhitespace(s) == SelectSeq(s, LAMBDA c : ~IsWhitespace(c))

\* s.trimStart() and s.trimEnd()
TrimStart(s) ==
    IF \A i \in 1..Len(s) : IsWhitespace(s[i]) THEN <<>>
    ELSE SubSeq(s, CHOOSE i \in 1..Len(s) :
                      ~IsWhitespace(s[i]) /\ \A j \in 1..(i - 1) : IsWhitespace(s[j]), Len(s))

TrimEnd(s) ==
    IF \A i \in 1..Len(s) : IsWhitespace(s[i]) THEN <<>>
    ELSE SubSeq(s, 1, CHOOSE i \in 1..Len(s) :
                         ~IsWhitespace(s[i]) /\ \A j \in (i + 1)..Len(s) : IsWhitespace(s[j]))

\* s.trim()
trim(s) == TrimEnd(TrimStart(s))

\* s.split(","): the pieces between the commas, empty pieces included.
RECURSIVE SplitOn(_, _)
SplitOn(s, sep) ==
    LET idx == indexOf(s, sep)
    IN  IF idx = -1 THEN <<s>>
        ELSE <<Slice(s, 0, idx)>> \o SplitOn(SliceFrom(s, idx + 1), sep)

----------------------------------------------------------------------------
(* base64.js: Buffer.from(s, 'base64').toString('utf8') and its inverse *)

\* The value of a base64 digit, of either alphabet; -1 for any other character.
unbase64(c) ==
    LET code == charCode(c)
    IN  IF code >= 65 /\ code <= 90 THEN code - 65
        ELSE IF code >= 97 /\ code <= 122 THEN code - 71
        ELSE IF code >= 48 /\ code <= 57 THEN code + 4
        ELSE IF c = "+" \/ c = "-" THEN 62
        ELSE IF c = "/" \/ c = "_" THEN 63
        ELSE -1

\* The digits the decoder reads: it skips what is no digit and stops at the first "=".
RECURSIVE Sextets(_)
Sextets(s) ==
    IF s = <<>> \/ Head(s) = "=" THEN <<>>
    ELSE IF unbase64(Head(s)) >= 0 THEN <<unbase64(Head(s))>> \o Sextets(Tail(s))
    ELSE Sextets(Tail(s))

\* Four digits make three bytes, three make two, two make one, one makes none.
RECURSIVE SextetsToBytes(_)
SextetsToBytes(q) ==
    IF Len(q) < 2 THEN <<>>
    ELSE IF Len(q) = 2 THEN << q[1] * 4 + q[2] \div 16 >>
    ELSE IF Len(q) = 3 THEN << q[1] * 4 + q[2] \div 16, (q[2] % 16) * 16 + q[3] \div 4 >>
    ELSE << q[1] * 4 + q[2] \div 16, (q[2] % 16) * 16 + q[3] \div 4, (q[3] % 4) * 64 + q[4] >>
         \o SextetsToBytes(SubSeq(q, 5, Len(q)))

base64Decode(b64String) ==
    LET bytes == SextetsToBytes(Sextets(b64String))
    IN  [i \in 1..Len(bytes) |-> fromCharCode(bytes[i])]

Base64Digits == SubSeq(Chars, 34, 59) \o SubSeq(Chars, 66, 91) \o SubSeq(Chars, 17, 26) \o <<"+", "/">>

RECURSIVE BytesToBase64(_)
BytesToBase64(b) ==
    IF b = <<>> THEN <<>>
    ELSE IF Len(b) = 1
    THEN << Base64Digits[b[1] \div 4 + 1], Base64Digits[(b[1] % 4) * 16 + 1], "=", "=" >>
    ELSE IF Len(b) = 2
    THEN << Base64Digits[b[1] \div 4 + 1], Base64Digits[(b[1] % 4) * 16 + b[2] \div 16 + 1],
            Base64Digits[(b[2] % 16) * 4 + 1], "=" >>
    ELSE << Base64Digits[b[1] \div 4 + 1], Base64Digits[(b[1] % 4) * 16 + b[2] \div 16 + 1],
            Base64Digits[(b[2] % 16) * 4 + b[3] \div 64 + 1], Base64Digits[(b[3] % 64) + 1] >>
         \o BytesToBase64(SubSeq(b, 4, Len(b)))

base64Encode(textString) ==
    BytesToBase64([i \in 1..Len(textString) |-> charCode(textString[i])])

----------------------------------------------------------------------------
(* auth.js *)

\* A variant of isNonEmpty that does not trim.
isNonEmpty_Untrimmed(value) == IsString(value) /\ Len(value) > 0

isNonEmpty(value) == IsString(value) /\ Len(trim(value)) > 0

\* a ^ b and a | b on non-negative integers.
RECURSIVE BitXor(_, _)
BitXor(a, b) ==
    IF a = 0 THEN b
    ELSE IF b = 0 THEN a
    ELSE (IF a % 2 = b % 2 THEN 0 ELSE 1) + 2 * BitXor(a \div 2, b \div 2)

RECURSIVE BitOr(_, _)
BitOr(a, b) ==
    IF a = 0 THEN b
    ELSE IF b = 0 THEN a
    ELSE (IF a % 2 = 1 \/ b % 2 = 1 THEN 1 ELSE 0) + 2 * BitOr(a \div 2, b \div 2)

\* The value of diff after the loop has run over the indices i..maxLen - 1.
RECURSIVE DiffFrom(_, _, _, _)
DiffFrom(a, b, i, diff) ==
    IF i >= Max(Len(a), Len(b)) THEN diff
    ELSE LET charA == IF i < Len(a) THEN charCode(a[i + 1]) ELSE 0
             charB == IF i < Len(b) THEN charCode(b[i + 1]) ELSE 0
         IN  DiffFrom(a, b, i + 1, BitOr(diff, BitXor(charA, charB)))

\* A variant of constantTimeEqual that compares the characters both strings have.
constantTimeEqual_Prefix(a, b) ==
    IF ~IsString(a) \/ ~IsString(b) THEN FALSE
    ELSE \A i \in 1..Len(a) : i <= Len(b) => charCode(a[i]) = charCode(b[i])

constantTimeEqual(a, b) ==
    IF ~IsString(a) \/ ~IsString(b) THEN FALSE
    ELSE DiffFrom(a, b, 0, BitXor(Len(a), Len(b))) = 0

\* The iterations of the loop of constantTimeEqual from index i on.
RECURSIVE LoopSteps(_, _, _)
LoopSteps(a, b, i) ==
    IF i >= Max(Len(a), Len(b)) THEN 0 ELSE 1 + LoopSteps(a, b, i + 1)

\* A variant of Iterations that returns before the loop when the lengths differ.
Iterations_LengthFirst(a, b) ==
    IF ~IsString(a) \/ ~IsString(b) THEN 0
    ELSE IF Len(a) # Len(b) THEN 0
    ELSE LoopSteps(a, b, 0)

\* The iterations of the loop that a call constantTimeEqual(a, b) executes.
Iterations(a, b) ==
    IF ~IsString(a) \/ ~IsString(b) THEN 0 ELSE LoopSteps(a, b, 0)

BasicPrefix == <<"B", "a", "s", "i", "c", " ">>

\* A variant of ProvidedCredentials that splits the decoded text at its last colon.
ProvidedCredentials_LastColon(authorizationHeader) ==
    IF ~Truthy(authorizationHeader) \/ ~startsWith(authorizationHeader, BasicPrefix)
    THEN [ok |-> FALSE]
    ELSE LET decoded == base64Decode(trim(SliceFrom(authorizationHeader, 6)))
         IN  IF indexOf(decoded, ":") = -1 THEN [ok |-> FALSE]
             ELSE LET idx == CHOOSE i \in 0..(Len(decoded) - 1) :
                               /\ decoded[i + 1] = ":"
                               /\ \A j \in (i + 2)..Len(decoded) : decoded[j] # ":"
                  IN  [ok |-> TRUE, user |-> Slice(decoded, 0, idx),
                       pass |-> SliceFrom(decoded, idx + 1)]

\* The header's user and password, which checkBasicAuth compares; ok is FALSE when it
\* returns false before comparing.
ProvidedCredentials(authorizationHeader) ==
    IF ~Truthy(authorizationHeader) \/ ~startsWith(authorizationHeader, BasicPrefix)
    THEN [ok |-> FALSE]
    ELSE LET b64 == trim(SliceFrom(authorizationHeader, 6))
             decoded == base64Decode(b64)
             idx == indexOf(decoded, ":")
         IN  IF idx = -1 THEN [ok |-> FALSE]
             ELSE [ok |-> TRUE, user |-> Slice(decoded, 0, idx),
                   pass |-> SliceFrom(decoded, idx + 1)]

\* The fields lines 21-22 of checkBasicAuth compare, in order: the right operand of &&
\* is evaluated when the left one is true.
Compared(provided, expectedUser, expectedPass) ==
    IF constantTimeEqual(provided.user, expectedUser) THEN <<"user", "pass">> ELSE <<"user">>

\* A variant of MatchesPair that compares the user only.
MatchesPair_UserOnly(provided, expectedUser, expectedPass) ==
    constantTimeEqual(provided.user, expectedUser)

\* A variant of MatchesPair that compares the password only.
MatchesPair_PassOnly(provided, expectedUser, expectedPass) ==
    constantTimeEqual(provided.pass, expectedPass)

\* The comparison of the provided pair with one expected pair.
MatchesPair(provided, expectedUser, expectedPass) ==
    constantTimeEqual(provided.user, expectedUser) /\
    constantTimeEqual(provided.pass, expectedPass)

\* What is expected of a tenant: one pair, or a list of pairs.
ExpectedPair(user, pass) == [isArray |-> FALSE, user |-> user, pass |-> pass]

ExpectedList(pairs) == [isArray |-> TRUE, pairs |-> pairs]

\* The comparison with what is expected of the tenant: a list accepts what one of its
\* pairs accepts.
MatchesExpected(provided, expected) ==
    IF expected.isArray
    THEN \E i \in 1..Len(expected.pairs) :
            MatchesPair(provided, expected.pairs[i].user, expected.pairs[i].pass)
    ELSE MatchesPair(provided, expected.user, expected.pass)

checkBasicAuth(authorizationHeader, expected) ==
    LET provided == ProvidedCredentials(authorizationHeader)
    IN  provided.ok /\ MatchesExpected(provided, expected)

----------------------------------------------------------------------------
(* host.js *)

\* /^[a-z0-9.-]+$/
IsSuffixChar(c) ==
    \/ charCode(c) >= 97 /\ charCode(c) <= 122
    \/ charCode(c) >= 48 /\ charCode(c) <= 57
    \/ c = "." \/ c = "-"

\* The suffix the function returns (ok), or that it throws (not ok). Every character of
\* the model is ASCII, so the punycode conversion leaves each part as it is.
validateAndNormalizeSuffix(suffix) ==
    LET normalized == toLowerCase(trim(suffix))
        dotted == IF startsWith(normalized, <<".">>) THEN normalized ELSE <<".">> \o normalized
    IN  IF ~Truthy(suffix) THEN [ok |-> FALSE]
        ELSE IF normalized = <<>> THEN [ok |-> FALSE]
        ELSE IF includes(normalized, <<":">>)
        THEN IF ~startsWith(normalized, <<"[">>) \/ ~endsWith(normalized, <<"]">>)
             THEN [ok |-> FALSE]
             ELSE [ok |-> TRUE, value |-> normalized]
        ELSE IF \/ includes(normalized, <<".", ".">>)
                \/ includes(normalized, <<".", "-">>)
                \/ includes(normalized, <<"-", ".">>)
        THEN [ok |-> FALSE]
        ELSE IF \E i \in 1..Len(normalized) : ~IsSuffixChar(normalized[i])
        THEN [ok |-> FALSE]
        ELSE IF \/ startsWith(dotted, <<".", "-">>)
                \/ endsWith(dotted, <<"-", ".">>)
                \/ endsWith(dotted, <<".">>)
        THEN [ok |-> FALSE]
        ELSE [ok |-> TRUE, value |-> dotted]

\* value.split(",").map(s => s.replace(/\s+/g, "")).filter(Boolean)
\* A variant of parseSimpleCommaList that keeps the empty tokens.
parseSimpleCommaList_KeepsEmpty(value) ==
    IF ~Truthy(value) THEN <<>>
    ELSE [i \in 1..Len(SplitOn(value, ",")) |-> StripWhitespace(SplitOn(value, ",")[i])]

parseSimpleCommaList(value) ==
    IF ~Truthy(value) THEN <<>>
    ELSE SelectSeq([i \in 1..Len(SplitOn(value, ",")) |-> StripWhitespace(SplitOn(value, ",")[i])],
                   Truthy)

\* The valid suffixes of the list, normalized, in their order; an invalid one is skipped.
RECURSIVE ValidatedSuffixes(_)
ValidatedSuffixes(suffixes) ==
    IF suffixes = <<>> THEN <<>>
    ELSE LET first == validateAndNormalizeSuffix(Head(suffixes))
         IN  (IF first.ok THEN <<first.value>> ELSE <<>>) \o ValidatedSuffixes(Tail(suffixes))

\* A variant of parseCommaList that returns nothing when one suffix is invalid.
parseCommaList_Aborts(value) ==
    IF ~Truthy(value) THEN <<>>
    ELSE IF \E i \in 1..Len(parseSimpleCommaList(value)) :
               ~validateAndNormalizeSuffix(parseSimpleCommaList(value)[i]).ok
    THEN <<>>
    ELSE ValidatedSuffixes(parseSimpleCommaList(value))

parseCommaList(value) ==
    IF ~Truthy(value) THEN <<>> ELSE ValidatedSuffixes(parseSimpleCommaList(value))

\* A variant of hostIsAllowed that allows no host when the list is empty.
hostIsAllowed_EmptyDenies(hostname, suffixes) ==
    \E i \in 1..Len(suffixes) : endsWith(hostname, suffixes[i])

hostIsAllowed(hostname, suffixes) ==
    IF Len(suffixes) = 0 THEN TRUE
    ELSE \E i \in 1..Len(suffixes) : endsWith(hostname, suffixes[i])

\* A variant of extractSubdomain that takes the longest suffix the hostname ends with.
extractSubdomain_Longest(hostname, allowedHostSuffixes) ==
    IF \E i \in 1..Len(allowedHostSuffixes) : endsWith(hostname, allowedHostSuffixes[i])
    THEN LET longest == CHOOSE i \in 1..Len(allowedHostSuffixes) :
                          /\ endsWith(hostname, allowedHostSuffixes[i])
                          /\ \A j \in 1..Len(allowedHostSuffixes) :
                                endsWith(hostname, allowedHostSuffixes[j])
                                  => Len(allowedHostSuffixes[j]) <= Len(allowedHostSuffixes[i])
             sub == Slice(hostname, 0, Len(hostname) - Len(allowedHostSuffixes[longest]))
         IN  IF endsWith(sub, <<".">>) THEN Slice(sub, 0, Len(sub) - 1) ELSE sub
    ELSE <<>>

\* The part of the hostname before the first suffix of the list that it ends with:
\* extractSubdomain for an array, as fetch passes it.
extractSubdomain(hostname, allowedHostSuffixes) ==
    IF \E i \in 1..Len(allowedHostSuffixes) : endsWith(hostname, allowedHostSuffixes[i])
    THEN LET first == CHOOSE i \in 1..Len(allowedHostSuffixes) :
                        /\ endsWith(hostname, allowedHostSuffixes[i])
                        /\ \A j \in 1..(i - 1) : ~endsWith(hostname, allowedHostSuffixes[j])
             sub == Slice(hostname, 0, Len(hostname) - Len(allowedHostSuffixes[first]))
         IN  IF endsWith(sub, <<".">>) THEN Slice(sub, 0, Len(sub) - 1) ELSE sub
    ELSE <<>>

\* extractSubdomain for an argument of either type, isArray being
\* Array.isArray(allowedHostSuffixes): a string goes through parseCommaList first.
extractSubdomainOf(hostname, allowedHostSuffixes, isArray) ==
    extractSubdomain(hostname, IF isArray THEN allowedHostSuffixes
                               ELSE parseCommaList(allowedHostSuffixes))

----------------------------------------------------------------------------
(* utils.js *)

\* A variant of getClientIdFromCloudflare that refuses an address of 64 characters too.
getClientIdFromCloudflare_Inclusive(request) ==
    LET ip == request.cfConnectingIp
    IN  IF ~Truthy(ip) \/ Len(ip) >= 64 THEN UNKNOWN ELSE ip

\* request.headers.get(name): Undefined stands for the null of a header that is not set.
getClientIdFromCloudflare(request) ==
    LET ip == request.cfConnectingIp
    IN  IF ~Truthy(ip) \/ Len(ip) > 64 THEN UNKNOWN ELSE ip

respond(body, status, headers) == [status |-> status, headers |-> headers, body |-> body]

\* The response with the given headers set over its own.
setHeaders(response, headers) == [response EXCEPT !.headers = headers @@ response.headers]

----------------------------------------------------------------------------
(* security-headers.js: the headers are a record; a header that is not set is absent from it. *)

securityHeaders(extra) ==
    extra @@ [XContentTypeOptions |-> "nosniff",
              XFrameOptions |-> "DENY",
              ReferrerPolicy |-> "no-referrer",
              PermissionsPolicy |-> "geolocation=(), microphone=(), camera=()",
              CrossOriginOpenerPolicy |-> "same-origin",
              CrossOriginEmbedderPolicy |-> "require-corp",
              CrossOriginResourcePolicy |-> "same-origin",
              StrictTransportSecurity |-> "max-age=31536000; includeSubDomains; preload",
              XRobotsTag |-> "noindex, nofollow, noarchive",
              CacheControl |-> "no-store"]

authChallengeHeaders ==
    securityHeaders([WWWAuthenticate |-> "Basic realm=\"Secure Redirect\", charset=\"UTF-8\""])

----------------------------------------------------------------------------
(* ratelimit.js *)

makeRateLimitKey(clientId, subdomain) == clientId \o <<":", ":">> \o subdomain

nowMs == now

\* Map.has / Map.get: the position of the entry of `key`, 0 when there is none.
EntryIndex(bucket, key) ==
    IF \E i \in 1..Len(bucket) : bucket[i].key = key
    THEN CHOOSE i \in 1..Len(bucket) : bucket[i].key = key
    ELSE 0

BucketHas(bucket, key) == EntryIndex(bucket, key) # 0

BucketGet(bucket, key) == bucket[EntryIndex(bucket, key)]

\* Map.delete: removes the entry of `key`, the others keep their order.
BucketDelete(bucket, key) ==
    SelectSeq(bucket, LAMBDA e : e.key # key)

\* A variant of pruneIfExpired with the comparison reversed.
pruneIfExpired_Reversed(bucket, key) ==
    IF BucketHas(bucket, key) /\ nowMs < BucketGet(bucket, key).resetAt
    THEN BucketDelete(bucket, key)
    ELSE bucket

pruneIfExpired(bucket, key) ==
    IF BucketHas(bucket, key) /\ nowMs > BucketGet(bucket, key).resetAt
    THEN BucketDelete(bucket, key)
    ELSE bucket

\* A variant of evictIfNeeded that removes the entry inserted last.
evictIfNeeded_Newest(bucket) ==
    IF Len(bucket) < MAX_RATE_LIMIT_KEYS THEN bucket
    ELSE IF Len(bucket) > 0 /\ bucket[Len(bucket)].key # <<>>
         THEN BucketDelete(bucket, bucket[Len(bucket)].key)
         ELSE bucket

\* A variant of evictIfNeeded that lets a full table be.
evictIfNeeded_OffByOne(bucket) ==
    IF Len(bucket) <= MAX_RATE_LIMIT_KEYS THEN bucket
    ELSE IF Len(bucket) > 0 /\ bucket[1].key # <<>>
         THEN BucketDelete(bucket, bucket[1].key)
         ELSE bucket

\* Remove oldest entry if bucket is full.
evictIfNeeded(bucket) ==
    IF Len(bucket) < MAX_RATE_LIMIT_KEYS THEN bucket
    ELSE IF Len(bucket) > 0 /\ bucket[1].key # <<>>
         THEN BucketDelete(bucket, bucket[1].key)
         ELSE bucket

\* A variant of limitFor with one threshold for every client.
limitFor_Same(clientId) == MAX_FAILED_ATTEMPTS

limitFor(clientId) ==
    IF clientId = UNKNOWN THEN MAX_FAILED_ATTEMPTS_UNKNOWN ELSE MAX_FAILED_ATTEMPTS

\* isRateLimited prunes the table and returns a boolean: the table afterwards ...
isRateLimitedBucket(bucket, clientId, subdomain) ==
    pruneIfExpired(bucket, makeRateLimitKey(clientId, subdomain))

\* A variant of isRateLimited that needs one failure more.
isRateLimited_StrictlyOver(bucket, clientId, subdomain) ==
    LET key == makeRateLimitKey(clientId, subdomain)
        pruned == pruneIfExpired(bucket, key)
    IN  BucketHas(pruned, key) /\ BucketGet(pruned, key).fails > limitFor(clientId)

\* ... and the value returned.
isRateLimited(bucket, clientId, subdomain) ==
    LET key == makeRateLimitKey(clientId, subdomain)
        pruned == pruneIfExpired(bucket, key)
    IN  BucketHas(pruned, key) /\ BucketGet(pruned, key).fails >= limitFor(clientId)

\* A variant of registerFailedAttempt that does not count the failure that creates the entry.
registerFailedAttempt_Uncounted(bucket, clientId, subdomain) ==
    LET key == makeRateLimitKey(clientId, subdomain)
        pruned == pruneIfExpired(bucket, key)
        currentTime == nowMs
    IN  IF ~BucketHas(pruned, key)
        THEN Append(evictIfNeeded(pruned),
                    [key |-> key, fails |-> 0, resetAt |-> currentTime + RATE_LIMIT_WINDOW_MS])
        ELSE [pruned EXCEPT ![EntryIndex(pruned, key)].fails = @ + 1]

\* A variant of registerFailedAttempt that leaves the count of an existing entry as it is.
registerFailedAttempt_NotIncremented(bucket, clientId, subdomain) ==
    LET key == makeRateLimitKey(clientId, subdomain)
        pruned == pruneIfExpired(bucket, key)
        currentTime == nowMs
    IN  IF ~BucketHas(pruned, key)
        THEN Append(evictIfNeeded(pruned),
                    [key |-> key, fails |-> 0 + 1, resetAt |-> currentTime + RATE_LIMIT_WINDOW_MS])
        ELSE pruned

\* A variant of registerFailedAttempt whose window starts anew with every failure.
registerFailedAttempt_Sliding(bucket, clientId, subdomain) ==
    LET key == makeRateLimitKey(clientId, subdomain)
        pruned == pruneIfExpired(bucket, key)
        currentTime == nowMs
    IN  IF ~BucketHas(pruned, key)
        THEN Append(evictIfNeeded(pruned),
                    [key |-> key, fails |-> 0 + 1, resetAt |-> currentTime + RATE_LIMIT_WINDOW_MS])
        ELSE [pruned EXCEPT ![EntryIndex(pruned, key)].fails = @ + 1,
                            ![EntryIndex(pruned, key)].resetAt = currentTime + RATE_LIMIT_WINDOW_MS]

registerFailedAttempt(bucket, clientId, subdomain) ==
    LET key == makeRateLimitKey(clientId, subdomain)
        pruned == pruneIfExpired(bucket, key)
        currentTime == nowMs
    IN  IF ~BucketHas(pruned, key)
        THEN Append(evictIfNeeded(pruned),
                    [key |-> key, fails |-> 0 + 1, resetAt |-> currentTime + RATE_LIMIT_WINDOW_MS])
        ELSE [pruned EXCEPT ![EntryIndex(pruned, key)].fails = @ + 1]

\* A variant of clearFailures that resets the count and keeps the entry.
clearFailures_ResetsCount(bucket, clientId, subdomain) ==
    LET key == makeRateLimitKey(clientId, subdomain)
    IN  IF BucketHas(bucket, key)
        THEN [bucket EXCEPT ![EntryIndex(bucket, key)].fails = 0]
        ELSE bucket

clearFailures(bucket, clientId, subdomain) ==
    BucketDelete(bucket, makeRateLimitKey(clientId, subdomain))

\* Math.ceil(n / d) for n >= 0, d > 0.
CeilDiv(n, d) == (n + d - 1) \div d

\* A variant of remainingWindowSeconds that rounds down.
remainingWindowSeconds_Floor(bucket, clientId, subdomain) ==
    LET key == makeRateLimitKey(clientId, subdomain)
    IN  IF ~BucketHas(bucket, key) THEN 0
        ELSE Max(0, BucketGet(bucket, key).resetAt - nowMs) \div 1000

remainingWindowSeconds(bucket, clientId, subdomain) ==
    LET key == makeRateLimitKey(clientId, subdomain)
    IN  IF ~BucketHas(bucket, key) THEN 0
        ELSE CeilDiv(Max(0, BucketGet(bucket, key).resetAt - nowMs), 1000)

\* The Retry-After value is String(remainingWindowSeconds(...)); the headers are kept as a record.
rateLimitRetryHeaders(bucket, clientId, subdomain) ==
    securityHeaders([RetryAfter |-> remainingWindowSeconds(bucket, clientId, subdomain)])

----------------------------------------------------------------------------
(* JSON.parse, for the JSON texts of the model: strings, numbers, literals, arrays, objects *)

JsonFail == [ok |-> FALSE]

IsDigit(c) == charCode(c) >= 48 /\ charCode(c) <= 57

IsHexDigit(c) ==
    \/ IsDigit(c)
    \/ charCode(c) >= 65 /\ charCode(c) <= 70
    \/ charCode(c) >= 97 /\ charCode(c) <= 102

\* The string whose opening quote has been read; an escape that names a character
\* outside the model yields OtherChar.
RECURSIVE ScanString(_, _)
ScanString(s, acc) ==
    IF s = <<>> THEN JsonFail
    ELSE IF Head(s) = "\"" THEN [ok |-> TRUE, val |-> [t |-> "string", v |-> acc], rest |-> Tail(s)]
    ELSE IF Head(s) = "\\"
    THEN IF Len(s) < 2 THEN JsonFail
         ELSE IF s[2] \in {"\"", "\\", "/"} THEN ScanString(SubSeq(s, 3, Len(s)), Append(acc, s[2]))
         ELSE IF s[2] \in {"b", "f", "n", "r", "t"}
         THEN ScanString(SubSeq(s, 3, Len(s)), Append(acc, OtherChar))
         ELSE IF s[2] = "u" /\ Len(s) >= 6 /\ \A i \in 3..6 : IsHexDigit(s[i])
         THEN ScanString(SubSeq(s, 7, Len(s)), Append(acc, OtherChar))
         ELSE JsonFail
    ELSE ScanString(Tail(s), Append(acc, Head(s)))

RECURSIVE ScanDigits(_)
ScanDigits(s) == IF s # <<>> /\ IsDigit(Head(s)) THEN <<Head(s)>> \o ScanDigits(Tail(s)) ELSE <<>>

\* -?(0|[1-9][0-9]*)(\.[0-9]+)?
ScanNumber(s) ==
    LET sign == IF s # <<>> /\ Head(s) = "-" THEN <<"-">> ELSE <<>>
        afterSign == SliceFrom(s, Len(sign))
        int == ScanDigits(afterSign)
        afterInt == SliceFrom(afterSign, Len(int))
        frac == IF afterInt # <<>> /\ Head(afterInt) = "." THEN ScanDigits(Tail(afterInt)) ELSE <<>>
        hasFrac == afterInt # <<>> /\ Head(afterInt) = "."
        text == sign \o int \o (IF hasFrac THEN <<".">> \o frac ELSE <<>>)
    IN  IF int = <<>> \/ (Len(int) > 1 /\ int[1] = "0") \/ (hasFrac /\ frac = <<>>) THEN JsonFail
        ELSE [ok |-> TRUE, val |-> [t |-> "number", v |-> text], rest |-> SliceFrom(s, Len(text))]

RECURSIVE ParseValue(_)
RECURSIVE ParseElements(_, _)
RECURSIVE ParseMembers(_, _)

\* The value at the start of s, which starts with no whitespace.
ParseValue(s) ==
    IF s = <<>> THEN JsonFail
    ELSE IF Head(s) = "\"" THEN ScanString(Tail(s), <<>>)
    ELSE IF Head(s) = "["
    THEN IF startsWith(TrimStart(Tail(s)), <<"]">>)
         THEN [ok |-> TRUE, val |-> [t |-> "array", items |-> <<>>], rest |-> Tail(TrimStart(Tail(s)))]
         ELSE ParseElements(TrimStart(Tail(s)), <<>>)
    ELSE IF Head(s) = "{"
    THEN IF startsWith(TrimStart(Tail(s)), <<"}">>)
         THEN [ok |-> TRUE, val |-> [t |-> "object", members |-> <<>>], rest |-> Tail(TrimStart(Tail(s)))]
         ELSE ParseMembers(TrimStart(Tail(s)), <<>>)
    ELSE IF startsWith(s, <<"t", "r", "u", "e">>)
    THEN [ok |-> TRUE, val |-> [t |-> "true"], rest |-> SliceFrom(s, 4)]
    ELSE IF startsWith(s, <<"f", "a", "l", "s", "e">>)
    THEN [ok |-> TRUE, val |-> [t |-> "false"], rest |-> SliceFrom(s, 5)]
    ELSE IF startsWith(s, <<"n", "u", "l", "l">>)
    THEN [ok |-> TRUE, val |-> [t |-> "null"], rest |-> SliceFrom(s, 4)]
    ELSE ScanNumber(s)

ParseElements(s, acc) ==
    LET element == ParseValue(s)
        after == TrimStart(element.rest)
    IN  IF ~element.ok THEN JsonFail
        ELSE IF startsWith(after, <<",">>)
        THEN ParseElements(TrimStart(Tail(after)), Append(acc, element.val))
        ELSE IF startsWith(after, <<"]">>)
        THEN [ok |-> TRUE, val |-> [t |-> "array", items |-> Append(acc, element.val)],
              rest |-> Tail(after)]
        ELSE JsonFail

ParseMembers(s, acc) ==
    LET name == IF startsWith(s, <<"\"">>) THEN ScanString(Tail(s), <<>>) ELSE JsonFail
        colon == TrimStart(name.rest)
        member == IF startsWith(colon, <<":">>) THEN ParseValue(TrimStart(Tail(colon))) ELSE JsonFail
        after == TrimStart(member.rest)
        members == Append(acc, [name |-> name.val.v, value |-> member.val])
    IN  IF ~name.ok THEN JsonFail
        ELSE IF ~member.ok THEN JsonFail
        ELSE IF startsWith(after, <<",">>) THEN ParseMembers(TrimStart(Tail(after)), members)
        ELSE IF startsWith(after, <<"}">>)
        THEN [ok |-> TRUE, val |-> [t |-> "object", members |-> members], rest |-> Tail(after)]
        ELSE JsonFail

\* JSON.parse(text): the value (ok), or that it throws (not ok).
JSONparse(text) ==
    LET parsed == ParseValue(TrimStart(text))
    IN  IF parsed.ok /\ TrimStart(parsed.rest) = <<>> THEN [ok |-> TRUE, val |-> parsed.val]
        ELSE JsonFail

\* typeof obj[name] === "string" for a parsed value: the last member of that name counts.
HasStringMember(obj, name) ==
    /\ obj.t = "object"
    /\ \E i \in 1..Len(obj.members) :
          /\ obj.members[i].name = name
          /\ \A j \in (i + 1)..Len(obj.members) : obj.members[j].name # name
          /\ obj.members[i].value.t = "string"

\* obj[name] of an object that has a string of that name.
StringMember(obj, name) ==
    LET i == CHOOSE i \in 1..Len(obj.members) :
                /\ obj.members[i].name = name
                /\ \A j \in (i + 1)..Len(obj.members) : obj.members[j].name # name
    IN  obj.members[i].value.v

----------------------------------------------------------------------------
(* index.js *)

\* env is the set of its bindings <<name, value>>; env[name] is Undefined without one.
EnvGet(env, name) ==
    IF \E b \in env : b[1] = name THEN (CHOOSE b \in env : b[1] = name)[2] ELSE Undefined

ALLOWED_HOST_SUFFIXES == <<"A", "L", "L", "O", "W", "E", "D", "_", "H", "O", "S", "T", "_", "S", "U", "F", "F", "I", "X", "E", "S">>

PROTECTED_SUBDOMAINS == <<"P", "R", "O", "T", "E", "C", "T", "E", "D", "_", "S", "U", "B", "D", "O", "M", "A", "I", "N", "S">>

FALLBACK_USER == <<"F", "A", "L", "L", "B", "A", "C", "K", "_", "U", "S", "E", "R">>

FALLBACK_PASS == <<"F", "A", "L", "L", "B", "A", "C", "K", "_", "P", "A", "S", "S">>

\* null, and a value that is not null.
Null == [isNull |-> TRUE]

NotNull(v) == [isNull |-> FALSE, value |-> v]

\* hash = ((hash << 5) - hash) + char; hash = hash & hash: 31 * hash + char as a signed
\* 32-bit integer, computed on the two 16-bit halves of hash.
HashStep(hash, char) ==
    LET unsignedHi == (hash \div 65536) % 65536
        lo == hash % 65536
        newLo == 31 * lo + char
        newHi == (31 * unsignedHi + newLo \div 65536) % 65536
        signedHi == IF newHi >= 32768 THEN newHi - 65536 ELSE newHi
    IN  signedHi * 65536 + (newLo % 65536)

\* The passes of the loop from index i on. hash is an integer at every pass (hash & hash);
\* the test of it has the value computed before the next pass, not at the end.
RECURSIVE HashFrom(_, _, _)
HashFrom(configString, i, hash) ==
    IF i >= Len(configString) \/ hash \notin Int THEN hash
    ELSE HashFrom(configString, i + 1, HashStep(hash, charCode(configString[i + 1])))

getConfigHash(env) ==
    LET configString == OrElse(EnvGet(env, ALLOWED_HOST_SUFFIXES), <<>>) \o <<"|">>
                        \o OrElse(EnvGet(env, PROTECTED_SUBDOMAINS), <<>>)
    IN  HashFrom(configString, 0, 0)

\* The configuration getCachedConfig parses from env.
ParseConfig(env) ==
    [allowedHostSuffixes |-> parseCommaList(EnvGet(env, ALLOWED_HOST_SUFFIXES)),
     protectedSubdomains |->
        LET list == parseSimpleCommaList(EnvGet(env, PROTECTED_SUBDOMAINS))
        IN  { list[i] : i \in 1..Len(list) }]

\* A variant of NormalizedSubdomain that leaves the dots.
NormalizedSubdomain_KeepsDots(subdomain) == toUpperCase(subdomain)

\* subdomain.toUpperCase().replace(/\./g, '_')
NormalizedSubdomain(subdomain) == DotsToUnderscores(toUpperCase(subdomain))

getRedirectTarget(subdomain, env) ==
    EnvGet(env, <<"L", "I", "N", "K", "_">> \o NormalizedSubdomain(subdomain))

\* A variant of UsersOrSingle that leaves a tenant with a malformed list without
\* credentials.
UsersOrSingle_Refuses(arr, single) ==
    IF /\ arr.ok
       /\ arr.val.t = "array"
       /\ \A i \in 1..Len(arr.val.items) :
             /\ HasStringMember(arr.val.items[i], <<"u", "s", "e", "r">>)
             /\ HasStringMember(arr.val.items[i], <<"p", "a", "s", "s">>)
    THEN ExpectedList([i \in 1..Len(arr.val.items) |->
                         [user |-> StringMember(arr.val.items[i], <<"u", "s", "e", "r">>),
                          pass |-> StringMember(arr.val.items[i], <<"p", "a", "s", "s">>)]])
    ELSE ExpectedList(<<>>)

\* Lines 69-70 of getCredentials: arr when it is an array of objects with string user
\* and pass, the single pair otherwise (also when JSON.parse threw).
UsersOrSingle(arr, single) ==
    IF /\ arr.ok
       /\ arr.val.t = "array"
       /\ \A i \in 1..Len(arr.val.items) :
             /\ HasStringMember(arr.val.items[i], <<"u", "s", "e", "r">>)
             /\ HasStringMember(arr.val.items[i], <<"p", "a", "s", "s">>)
    THEN ExpectedList([i \in 1..Len(arr.val.items) |->
                         [user |-> StringMember(arr.val.items[i], <<"u", "s", "e", "r">>),
                          pass |-> StringMember(arr.val.items[i], <<"p", "a", "s", "s">>)]])
    ELSE single

getCredentials(subdomain, env) ==
    LET normalizedSubdomain == NormalizedSubdomain(subdomain)
        usersKey == <<"U", "S", "E", "R", "S", "_">> \o normalizedSubdomain
        userKey == <<"U", "S", "E", "R", "_">> \o normalizedSubdomain
        passKey == <<"P", "A", "S", "S", "_">> \o normalizedSubdomain
        single == ExpectedPair(OrElse(EnvGet(env, userKey), EnvGet(env, FALLBACK_USER)),
                               OrElse(EnvGet(env, passKey), EnvGet(env, FALLBACK_PASS)))
    IN  IF Truthy(EnvGet(env, usersKey))
        THEN UsersOrSingle(JSONparse(EnvGet(env, usersKey)), single)
        ELSE single

\* No response: the null a step of the pipeline returns when the request may go on.
NoResponse == [status |-> 0, headers |-> <<>>, body |-> ""]

\* new URL(text).href for an absolute URL (ok), or that new URL throws (not ok). A special
\* scheme needs a host; scheme and host are lower-cased and an empty path becomes "/".
IsSchemeChar(c) ==
    \/ charCode(LowerOf(c)) >= 97 /\ charCode(LowerOf(c)) <= 122
    \/ IsDigit(c) \/ c \in {"+", "-", "."}

RECURSIVE DropSlashes(_)
DropSlashes(s) == IF s # <<>> /\ Head(s) \in {"/", "\\"} THEN DropSlashes(Tail(s)) ELSE s

RECURSIVE HostPart(_)
HostPart(s) ==
    IF s = <<>> \/ Head(s) \in {"/", "\\", "?", "#"} THEN <<>> ELSE <<Head(s)>> \o HostPart(Tail(s))

ParseUrl(text) ==
    LET input == trim(text)
        colon == indexOf(input, ":")
        scheme == toLowerCase(Slice(input, 0, colon))
        afterScheme == SliceFrom(input, colon + 1)
        authority == DropSlashes(afterScheme)
        host == HostPart(authority)
        path == SliceFrom(authority, Len(host))
    IN  IF colon < 1 \/ IsDigit(input[1]) \/ input[1] \in {"+", "-", "."}
           \/ \E i \in 1..colon : ~IsSchemeChar(input[i])
        THEN [ok |-> FALSE]
        ELSE IF scheme \in {<<"h", "t", "t", "p">>, <<"h", "t", "t", "p", "s">>}
        THEN IF host = <<>> \/ \E i \in 1..Len(host) : host[i] \in {" ", "<", ">", "^", "|", "%"}
             THEN [ok |-> FALSE]
             ELSE [ok |-> TRUE,
                   href |-> scheme \o <<":", "/", "/">> \o toLowerCase(host)
                            \o (IF path = <<>> \/ Head(path) \in {"?", "#"} THEN <<"/">> ELSE <<>>)
                            \o path]
        ELSE [ok |-> TRUE, href |-> scheme \o <<":">> \o afterScheme]

\* Response.redirect(url, status): the response, or Thrown when the URL does not parse.
Thrown == [status |-> 500, headers |-> <<>>, body |-> "TypeError"]

ResponseRedirect(url, status) ==
    LET parsed == ParseUrl(url)
    IN  IF parsed.ok
        THEN [status |-> status, headers |-> [Location |-> parsed.href], body |-> ""]
        ELSE Thrown

\* The request's URL is [protocol, hostname, rest]; url.toString() with the protocol https.
enforceHttps(url) ==
    IF url.protocol = "http:"
    THEN ResponseRedirect(<<"h", "t", "t", "p", "s", ":", "/", "/">> \o url.hostname \o url.rest, 301)
    ELSE NoResponse

validateMethod(method) ==
    LET upperMethod == toUpperCase(method)
    IN  IF upperMethod # <<"G", "E", "T">> /\ upperMethod # <<"H", "E", "A", "D">>
        THEN respond("Method Not Allowed", 405, securityHeaders([Allow |-> "GET, HEAD"]))
        ELSE NoResponse

\* The error response, or the subdomain.
resolveSubdomain(hostname, allowedHostSuffixes) ==
    IF ~hostIsAllowed(hostname, allowedHostSuffixes)
    THEN [error |-> respond("Not found", 404, securityHeaders(<<>>)), subdomain |-> Undefined]
    ELSE [error |-> NoResponse, subdomain |-> extractSubdomain(hostname, allowedHostSuffixes)]

handleRedirect(targetUrl) ==
    LET redirect == ResponseRedirect(targetUrl, 302)
    IN  IF Truthy(targetUrl)
        THEN IF redirect = Thrown THEN Thrown ELSE setHeaders(redirect, securityHeaders(<<>>))
        ELSE respond("Not found", 404, securityHeaders(<<>>))

----------------------------------------------------------------------------
(* The environments and the requests of the model *)

\* MainEnv: the tenants of .x.io. a has one pair, m a list of two; p is public; n is
\* protected without target; w has a whitespace user, e an empty list, l a list with a
\* whitespace user; f has a list that is not JSON and takes the fallback pair; b is
\* public with a target that is not a URL. The second allowed suffix is malformed.
MainEnv ==
    { <<ALLOWED_HOST_SUFFIXES, <<"x", ".", "i", "o", ",", "-">>>>,
      <<PROTECTED_SUBDOMAINS, <<"a", ",", " ", "m", ",", "n", ",", "w", ",", "e", ",", "l", ",", "f">>>>,
      <<<<"L", "I", "N", "K", "_", "B">>, <<"o", "o", "p", "s">>>>,
      <<<<"U", "S", "E", "R", "S", "_", "F">>, <<"[", "{", "o", "o", "p", "s">>>>,
      <<FALLBACK_USER, <<"f", "b">>>>,
      <<FALLBACK_PASS, <<"f", "p">>>>,
      <<<<"L", "I", "N", "K", "_", "A">>, <<"h", "t", "t", "p", "s", ":", "/", "/", "t", ".", "c", "o", "/", "a">>>>,
      <<<<"L", "I", "N", "K", "_", "M">>, <<"h", "t", "t", "p", "s", ":", "/", "/", "t", ".", "c", "o", "/", "m">>>>,
      <<<<"L", "I", "N", "K", "_", "P">>, <<"h", "t", "t", "p", "s", ":", "/", "/", "t", ".", "c", "o">>>>,
      <<<<"L", "I", "N", "K", "_", "W">>, <<"h", "t", "t", "p", "s", ":", "/", "/", "t", ".", "c", "o", "/", "w">>>>,
      <<<<"L", "I", "N", "K", "_", "E">>, <<"h", "t", "t", "p", "s", ":", "/", "/", "t", ".", "c", "o", "/", "e">>>>,
      <<<<"L", "I", "N", "K", "_", "L">>, <<"h", "t", "t", "p", "s", ":", "/", "/", "t", ".", "c", "o", "/", "l">>>>,
      <<<<"L", "I", "N", "K", "_", "F">>, <<"h", "t", "t", "p", "s", ":", "/", "/", "t", ".", "c", "o", "/", "f">>>>,
      <<<<"U", "S", "E", "R", "_", "A">>, <<"a", "l">>>>,
      <<<<"P", "A", "S", "S", "_", "A">>, <<"p", "w">>>>,
      <<<<"U", "S", "E", "R", "S", "_", "M">>,
        <<"[", "{", "\"", "u", "s", "e", "r", "\"", ":", "\"", "a", "l", "\"", ",", "\"", "p", "a", "s", "s", "\"", ":", "\"", "p", "w", "\"", "}", ",", "{", "\"", "u", "s", "e", "r", "\"", ":", "\"", "b", "o", "\"", ",", "\"", "p", "a", "s", "s", "\"", ":", "\"", "p", "2", "\"", "}", "]">>>>,
      <<<<"U", "S", "E", "R", "_", "W">>, <<" ">>>>,
      <<<<"P", "A", "S", "S", "_", "W">>, <<"p", "w">>>>,
      <<<<"U", "S", "E", "R", "S", "_", "E">>, <<"[", "]">>>>,
      <<<<"U", "S", "E", "R", "S", "_", "L">>,
        <<"[", "{", "\"", "u", "s", "e", "r", "\"", ":", "\"", " ", "\"", ",", "\"", "p", "a", "s", "s", "\"", ":", "\"", "p", "w", "\"", "}", ",", "{", "\"", "u", "s", "e", "r", "\"", ":", "\"", "b", "o", "\"", ",", "\"", "p", "a", "s", "s", "\"", ":", "\"", "p", "2", "\"", "}", "]">>>> }

\* BareEnv: the same hosts and protected subdomains, but a has a password only, and
\* there is no fallback pair.
BareEnv ==
    { <<ALLOWED_HOST_SUFFIXES, <<"x", ".", "i", "o">>>>,
      <<PROTECTED_SUBDOMAINS, <<"a", ",", " ", "m", ",", "n", ",", "w", ",", "e", ",", "l", ",", "f">>>>,
      <<<<"L", "I", "N", "K", "_", "A">>, <<"h", "t", "t", "p", "s", ":", "/", "/", "t", ".", "c", "o", "/", "a">>>>,
      <<<<"P", "A", "S", "S", "_", "A">>, <<"p", "w">>>> }

\* AliasEnv: the protected subdomains are c.d and G, written as they are configured;
\* their targets are under LINK_C_D and LINK_G, and the fallback pair is their credential.
AliasEnv ==
    { <<ALLOWED_HOST_SUFFIXES, <<"x", ".", "i", "o">>>>,
      <<PROTECTED_SUBDOMAINS, <<"c", ".", "d", ",", "G">>>>,
      <<FALLBACK_USER, <<"f", "b">>>>,
      <<FALLBACK_PASS, <<"f", "p">>>>,
      <<<<"L", "I", "N", "K", "_", "C", "_", "D">>, <<"h", "t", "t", "p", "s", ":", "/", "/", "t", ".", "c", "o", "/", "c">>>>,
      <<<<"L", "I", "N", "K", "_", "G">>, <<"h", "t", "t", "p", "s", ":", "/", "/", "t", ".", "c", "o", "/", "g">>>> }

Envs == [main |-> MainEnv, bare |-> BareEnv, alias |-> AliasEnv]

\* The Authorization headers. "spaced" carries the pair of a behind enough spaces to exceed
\* MAX_AUTH_HEADER_LENGTH.
AuthHeaders ==
    [none |-> Undefined,
     al |-> BasicPrefix \o base64Encode(<<"a", "l", ":", "p", "w">>),
     bo |-> BasicPrefix \o base64Encode(<<"b", "o", ":", "p", "2">>),
     fb |-> BasicPrefix \o base64Encode(<<"f", "b", ":", "f", "p">>),
     wrong |-> BasicPrefix \o base64Encode(<<"a", "l", ":", "p", "W">>),
     user |-> BasicPrefix \o base64Encode(<<"a", "L", ":", "p", "w">>),
     bearer |-> <<"B", "e", "a", "r", "e", "r", " ">> \o base64Encode(<<"a", "l", ":", "p", "w">>),
     garbage |-> BasicPrefix \o <<"!", "!", "!">>,
     nocolon |-> BasicPrefix \o base64Encode(<<"a", "l", "p", "w">>),
     spaced |-> BasicPrefix \o [i \in 1..MAX_AUTH_HEADER_LENGTH |-> " "]
                \o base64Encode(<<"a", "l", ":", "p", "w">>),
     exact |-> BasicPrefix \o [i \in 1..4082 |-> " "]
               \o base64Encode(<<"a", "l", ":", "p", "w">>)]

ClientIps == [none |-> Undefined, ip |-> <<"1", ".", "2">>]

HostA == <<"a", ".", "x", ".", "i", "o">>

HostM == <<"m", ".", "x", ".", "i", "o">>

\* The requests: protocol, method, host name, Authorization header, client address.
RequestShapes ==
    [plain |-> <<"http:", <<"G", "E", "T">>, HostA, "al", "none">>,
     post |-> <<"https:", <<"P", "O", "S", "T">>, HostA, "al", "none">>,
     foreign |-> <<"https:", <<"G", "E", "T">>, <<"a", ".", "z", ".", "i", "o">>, "al", "none">>,
     public |-> <<"https:", <<"g", "e", "t">>, <<"p", ".", "x", ".", "i", "o">>, "none", "none">>,
     missing |-> <<"https:", <<"G", "E", "T">>, <<"q", ".", "x", ".", "i", "o">>, "none", "none">>,
     nolink |-> <<"https:", <<"G", "E", "T">>, <<"n", ".", "x", ".", "i", "o">>, "al", "none">>,
     n_none |-> <<"https:", <<"G", "E", "T">>, <<"n", ".", "x", ".", "i", "o">>, "none", "none">>,
     n_fb |-> <<"https:", <<"G", "E", "T">>, <<"n", ".", "x", ".", "i", "o">>, "fb", "none">>,
     a_none |-> <<"https:", <<"G", "E", "T">>, HostA, "none", "none">>,
     a_al |-> <<"https:", <<"G", "E", "T">>, HostA, "al", "none">>,
     a_wrong |-> <<"https:", <<"G", "E", "T">>, HostA, "wrong", "none">>,
     a_user |-> <<"https:", <<"G", "E", "T">>, HostA, "user", "none">>,
     a_bearer |-> <<"https:", <<"G", "E", "T">>, HostA, "bearer", "none">>,
     a_garbage |-> <<"https:", <<"G", "E", "T">>, HostA, "garbage", "none">>,
     a_nocolon |-> <<"https:", <<"G", "E", "T">>, HostA, "nocolon", "none">>,
     a_spaced |-> <<"https:", <<"G", "E", "T">>, HostA, "spaced", "none">>,
     a_exact |-> <<"https:", <<"G", "E", "T">>, HostA, "exact", "none">>,
     a_ip_al |-> <<"https:", <<"G", "E", "T">>, HostA, "al", "ip">>,
     a_ip_wrong |-> <<"https:", <<"G", "E", "T">>, HostA, "wrong", "ip">>,
     m_bo |-> <<"https:", <<"G", "E", "T">>, HostM, "bo", "none">>,
     m_wrong |-> <<"https:", <<"G", "E", "T">>, HostM, "wrong", "none">>,
     f_fb |-> <<"https:", <<"G", "E", "T">>, <<"f", ".", "x", ".", "i", "o">>, "fb", "none">>,
     w_fb |-> <<"https:", <<"G", "E", "T">>, <<"w", ".", "x", ".", "i", "o">>, "fb", "none">>,
     e_fb |-> <<"https:", <<"G", "E", "T">>, <<"e", ".", "x", ".", "i", "o">>, "fb", "none">>,
     l_bo |-> <<"https:", <<"G", "E", "T">>, <<"l", ".", "x", ".", "i", "o">>, "bo", "none">>,
     b_none |-> <<"https:", <<"G", "E", "T">>, <<"b", ".", "x", ".", "i", "o">>, "none", "none">>,
     x_post |-> <<"http:", <<"P", "O", "S", "T">>, <<"a", ".", "z", ".", "i", "o">>, "none", "none">>,
     z_post |-> <<"https:", <<"p", "o", "s", "t">>, <<"a", ".", "z", ".", "i", "o">>, "none", "none">>,
     a_head |-> <<"https:", <<"H", "e", "a", "d">>, HostA, "al", "ip">>,
     cd_fb |-> <<"https:", <<"G", "E", "T">>, <<"c", ".", "d", ".", "x", ".", "i", "o">>, "fb", "none">>,
     c_d_none |-> <<"https:", <<"G", "E", "T">>, <<"c", "_", "d", ".", "x", ".", "i", "o">>, "none", "none">>,
     g_none |-> <<"https:", <<"G", "E", "T">>, <<"G", ".", "x", ".", "i", "o">>, "none", "none">>]

Request(protocol, method, hostname, authorization, ip) ==
    [url |-> [protocol |-> protocol, hostname |-> hostname, rest |-> <<"/">>],
     method |-> method,
     authorization |-> AuthHeaders[authorization],
     cfConnectingIp |-> ClientIps[ip]]

Requests ==
    [r \in DOMAIN RequestShapes |->
        Request(RequestShapes[r][1], RequestShapes[r][2], RequestShapes[r][3],
                RequestShapes[r][4], RequestShapes[r][5])]

\* The calls of fetch: the requests under MainEnv, two of them under BareEnv too, and
\* under AliasEnv the three to the hosts of its protected subdomains. The failing
\* request of the client with an address is left to CountFetches.
Fetches ==
    { <<r, "main">> : r \in DOMAIN Requests \ {"a_ip_wrong"} }
        \cup { <<"a_al", "bare">>, <<"nolink", "bare">> }
        \cup { <<r, "alias">> : r \in {"cd_fb", "c_d_none", "g_none"} }

----------------------------------------------------------------------------
(* The functions of the pipeline that read no state of the worker, tabulated over the *)
(* environments, the requests and the subdomains of the model                         *)

EnvIds == DOMAIN Envs

RequestIds == DOMAIN Requests

ConfigHashes == [e \in EnvIds |-> getConfigHash(Envs[e])]

ParsedConfigs == [e \in EnvIds |-> ParseConfig(Envs[e])]

\* url.hostname.toLowerCase()
Hostnames == [r \in RequestIds |-> toLowerCase(Requests[r].url.hostname)]

\* The subdomains a request of the model resolves to under a configuration of the model.
Subdomains ==
    { extractSubdomain(Hostnames[r], ParsedConfigs[e].allowedHostSuffixes) :
        r \in RequestIds, e \in EnvIds }

HttpsResponses == [r \in RequestIds |-> enforceHttps(Requests[r].url)]

MethodResponses == [r \in RequestIds |-> validateMethod(Requests[r].method)]

ClientIds == [r \in RequestIds |-> getClientIdFromCloudflare(Requests[r])]

\* request.headers.get("Authorization") || ""
AuthorizationHeaders == [r \in RequestIds |-> OrElse(Requests[r].authorization, <<>>)]

RedirectTargets == [s \in Subdomains, e \in EnvIds |-> getRedirectTarget(s, Envs[e])]

Redirects == [s \in Subdomains, e \in EnvIds |-> handleRedirect(RedirectTargets[s, e])]

Credentials == [s \in Subdomains, e \in EnvIds |-> getCredentials(s, Envs[e])]

\* hasValid of authorizeProtectedSubdomain, for the credentials getCredentials returned.
hasValid(expected) ==
    IF expected.isArray
    THEN /\ Len(expected.pairs) > 0
         /\ \A i \in 1..Len(expected.pairs) :
               isNonEmpty(expected.pairs[i].user) /\ isNonEmpty(expected.pairs[i].pass)
    ELSE isNonEmpty(expected.user) /\ isNonEmpty(expected.pass)

HasValid == [s \in Subdomains, e \in EnvIds |-> hasValid(Credentials[s, e])]

\* checkBasicAuth(authHeader, expected)
Accepted ==
    [r \in RequestIds, s \in Subdomains, e \in EnvIds |->
        checkBasicAuth(AuthorizationHeaders[r], Credentials[s, e])]

----------------------------------------------------------------------------
(* index.js: the steps of the pipeline that read or write the state of the worker *)

\* A variant of getCachedConfigFrom that parses the configuration at every call.
getCachedConfigFrom_AlwaysParses(cache, lastHash, currentHash, parsed) ==
    [configCache |-> NotNull(parsed), lastConfigHash |-> NotNull(currentHash), reparsed |-> TRUE]

\* Lines 27-36 of getCachedConfig, currentHash being getConfigHash(env) and parsed the
\* object lines 29-32 build from env: the cache and the hash afterwards, and whether
\* lines 29-33 ran and stored a new object. The call returns that cache.
getCachedConfigFrom(cache, lastHash, currentHash, parsed) ==
    IF cache = Null \/ lastHash # NotNull(currentHash)
    THEN [configCache |-> NotNull(parsed), lastConfigHash |-> NotNull(currentHash),
          reparsed |-> TRUE]
    ELSE [configCache |-> cache, lastConfigHash |-> lastHash, reparsed |-> FALSE]

\* getCachedConfig(env) for an environment of the requests.
getCachedConfig(cache, lastHash, e) ==
    getCachedConfigFrom(cache, lastHash, ConfigHashes[e], ParsedConfigs[e])

\* A variant of TooLong that refuses a header of MAX_AUTH_HEADER_LENGTH characters too.
TooLong_Inclusive(authHeader) == Len(authHeader) >= MAX_AUTH_HEADER_LENGTH

\* authHeader.length > MAX_AUTH_HEADER_LENGTH
TooLong(authHeader) == Len(authHeader) > MAX_AUTH_HEADER_LENGTH

\* A variant of Authorize that answers a tenant without usable credentials with a
\* server error.
Authorize_MisconfiguredIsError(bucket, clientId, subdomain, valid, authHeader, accepted) ==
    IF ~valid
    THEN [response |-> respond("Server misconfigured", 500, securityHeaders(<<>>)),
          bucket |-> bucket, calls |-> <<>>, isValid |-> FALSE]
    ELSE IF isRateLimited(bucket, clientId, subdomain)
    THEN [response |-> respond("Too many requests", 429,
                               rateLimitRetryHeaders(isRateLimitedBucket(bucket, clientId, subdomain),
                                                     clientId, subdomain)),
          bucket |-> isRateLimitedBucket(bucket, clientId, subdomain),
          calls |-> <<"isRateLimited">>, isValid |-> FALSE]
    ELSE IF TooLong(authHeader) \/ ~accepted
    THEN [response |-> respond("Not authorized", 401, authChallengeHeaders),
          bucket |-> registerFailedAttempt(isRateLimitedBucket(bucket, clientId, subdomain),
                                           clientId, subdomain),
          calls |-> IF TooLong(authHeader)
                    THEN <<"isRateLimited", "registerFailedAttempt">>
                    ELSE <<"isRateLimited", "checkBasicAuth", "registerFailedAttempt">>,
          isValid |-> FALSE]
    ELSE [response |-> NoResponse,
          bucket |-> clearFailures(isRateLimitedBucket(bucket, clientId, subdomain),
                                   clientId, subdomain),
          calls |-> <<"isRateLimited", "checkBasicAuth", "clearFailures">>,
          isValid |-> TRUE]

\* A variant of Authorize that checks the credentials first and the rate limit only
\* when they are not accepted.
Authorize_CredentialsFirst(bucket, clientId, subdomain, valid, authHeader, accepted) ==
    IF ~valid
    THEN [response |-> respond("Not authorized", 401, authChallengeHeaders),
          bucket |-> bucket, calls |-> <<>>, isValid |-> FALSE]
    ELSE IF ~TooLong(authHeader) /\ accepted
    THEN [response |-> NoResponse,
          bucket |-> clearFailures(bucket, clientId, subdomain),
          calls |-> <<"checkBasicAuth", "clearFailures">>, isValid |-> TRUE]
    ELSE IF isRateLimited(bucket, clientId, subdomain)
    THEN [response |-> respond("Too many requests", 429,
                               rateLimitRetryHeaders(isRateLimitedBucket(bucket, clientId, subdomain),
                                                     clientId, subdomain)),
          bucket |-> isRateLimitedBucket(bucket, clientId, subdomain),
          calls |-> <<"checkBasicAuth", "isRateLimited">>, isValid |-> FALSE]
    ELSE [response |-> respond("Not authorized", 401, authChallengeHeaders),
          bucket |-> registerFailedAttempt(isRateLimitedBucket(bucket, clientId, subdomain),
                                           clientId, subdomain),
          calls |-> <<"checkBasicAuth", "isRateLimited", "registerFailedAttempt">>,
          isValid |-> FALSE]

\* A variant of Authorize that counts the request it answers 429 as a failed attempt.
Authorize_CountsRefused(bucket, clientId, subdomain, valid, authHeader, accepted) ==
    IF ~valid
    THEN [response |-> respond("Not authorized", 401, authChallengeHeaders),
          bucket |-> bucket, calls |-> <<>>, isValid |-> FALSE]
    ELSE IF isRateLimited(bucket, clientId, subdomain)
    THEN [response |-> respond("Too many requests", 429,
                               rateLimitRetryHeaders(isRateLimitedBucket(bucket, clientId, subdomain),
                                                     clientId, subdomain)),
          bucket |-> registerFailedAttempt(isRateLimitedBucket(bucket, clientId, subdomain),
                                           clientId, subdomain),
          calls |-> <<"isRateLimited">>, isValid |-> FALSE]
    ELSE IF TooLong(authHeader) \/ ~accepted
    THEN [response |-> respond("Not authorized", 401, authChallengeHeaders),
          bucket |-> registerFailedAttempt(isRateLimitedBucket(bucket, clientId, subdomain),
                                           clientId, subdomain),
          calls |-> IF TooLong(authHeader)
                    THEN <<"isRateLimited", "registerFailedAttempt">>
                    ELSE <<"isRateLimited", "checkBasicAuth", "registerFailedAttempt">>,
          isValid |-> FALSE]
    ELSE [response |-> NoResponse,
          bucket |-> clearFailures(isRateLimitedBucket(bucket, clientId, subdomain),
                                   clientId, subdomain),
          calls |-> <<"isRateLimited", "checkBasicAuth", "clearFailures">>,
          isValid |-> TRUE]

\* Lines 121-144 of authorizeProtectedSubdomain, given what its first steps yield: the
\* client id, hasValid, the Authorization header and what checkBasicAuth returns for it.
\* The result is the response (NoResponse when the request is authorized), the table
\* afterwards, the functions of ratelimit.js and auth.js called, in order, and isValid.
Authorize(bucket, clientId, subdomain, valid, authHeader, accepted) ==
    IF ~valid
    THEN [response |-> respond("Not authorized", 401, authChallengeHeaders),
          bucket |-> bucket, calls |-> <<>>, isValid |-> FALSE]
    ELSE IF isRateLimited(bucket, clientId, subdomain)
    THEN [response |-> respond("Too many requests", 429,
                               rateLimitRetryHeaders(isRateLimitedBucket(bucket, clientId, subdomain),
                                                     clientId, subdomain)),
          bucket |-> isRateLimitedBucket(bucket, clientId, subdomain),
          calls |-> <<"isRateLimited">>, isValid |-> FALSE]
    ELSE IF TooLong(authHeader)
    THEN [response |-> respond("Not authorized", 401, authChallengeHeaders),
          bucket |-> registerFailedAttempt(isRateLimitedBucket(bucket, clientId, subdomain),
                                           clientId, subdomain),
          calls |-> <<"isRateLimited", "registerFailedAttempt">>, isValid |-> FALSE]
    ELSE IF ~accepted
    THEN [response |-> respond("Not authorized", 401, authChallengeHeaders),
          bucket |-> registerFailedAttempt(isRateLimitedBucket(bucket, clientId, subdomain),
                                           clientId, subdomain),
          calls |-> <<"isRateLimited", "checkBasicAuth", "registerFailedAttempt">>,
          isValid |-> FALSE]
    ELSE [response |-> NoResponse,
          bucket |-> clearFailures(isRateLimitedBucket(bucket, clientId, subdomain),
                                   clientId, subdomain),
          calls |-> <<"isRateLimited", "checkBasicAuth", "clearFailures">>,
          isValid |-> TRUE]

authorizeProtectedSubdomain(bucket, r, subdomain, e) ==
    Authorize(bucket, ClientIds[r], subdomain, HasValid[subdomain, e],
              AuthorizationHeaders[r], Accepted[r, subdomain, e])

\* Lines 187-194 of fetch: the answer to a request for a protected subdomain with a
\* target, auth being what authorizeProtectedSubdomain returned.
AnswerProtected(auth, found, redirect) ==
    [response |-> IF auth.response # NoResponse THEN auth.response ELSE redirect,
     bucket |-> auth.bucket, calls |-> auth.calls, isValid |-> auth.isValid]
    @@ found

\* A variant of AnswerResolved that authorizes the request for a protected subdomain
\* before it looks at the target.
AnswerResolved_AuthorizesFirst(bucket, r, e, subdomain, isProtected, targetUrl, redirect, cached) ==
    IF isProtected
    THEN AnswerProtected(authorizeProtectedSubdomain(bucket, r, subdomain, e),
                         [subdomain |-> subdomain, isProtected |-> isProtected] @@ cached,
                         redirect)
    ELSE [response |-> redirect, subdomain |-> subdomain, isProtected |-> isProtected] @@ cached

\* Lines 176-194 of fetch: the answer once the subdomain is resolved, targetUrl being
\* what getRedirectTarget returned and redirect what handleRedirect returns for it.
AnswerResolved(bucket, r, e, subdomain, isProtected, targetUrl, redirect, cached) ==
    IF isProtected /\ ~Truthy(targetUrl)
    THEN [response |-> respond("Not found", 404, securityHeaders(<<>>)),
          subdomain |-> subdomain, isProtected |-> isProtected] @@ cached
    ELSE IF isProtected
    THEN AnswerProtected(authorizeProtectedSubdomain(bucket, r, subdomain, e),
                         [subdomain |-> subdomain, isProtected |-> isProtected] @@ cached,
                         redirect)
    ELSE [response |-> redirect, subdomain |-> subdomain, isProtected |-> isProtected] @@ cached

\* Lines 171-194 of fetch: the answer once the configuration is read, resolved being
\* what resolveSubdomain returned.
AnswerConfigured(bucket, r, e, config, resolved, untouched) ==
    IF resolved.error # NoResponse
    THEN [response |-> resolved.error, configCache |-> config.configCache,
          lastConfigHash |-> config.lastConfigHash] @@ untouched
    ELSE AnswerResolved(bucket, r, e, resolved.subdomain,
                        resolved.subdomain \in config.configCache.value.protectedSubdomains,
                        RedirectTargets[resolved.subdomain, e],
                        Redirects[resolved.subdomain, e],
                        [configCache |-> config.configCache,
                         lastConfigHash |-> config.lastConfigHash] @@ untouched)

\* Lines 168-194 of fetch, config being what getCachedConfig left and returned.
AnswerAllowed(bucket, r, e, config, untouched) ==
    AnswerConfigured(bucket, r, e, config,
                     resolveSubdomain(Hostnames[r], config.configCache.value.allowedHostSuffixes),
                     untouched)

\* Lines 158-166 of fetch: the answers given before the configuration is read.
AnswerEarly(httpsResponse, methodResponse, later, untouched) ==
    IF httpsResponse # NoResponse THEN [response |-> httpsResponse] @@ untouched
    ELSE IF methodResponse # NoResponse THEN [response |-> methodResponse] @@ untouched
    ELSE later

\* What fetch(request, env) returns and what it leaves behind: the response, the table, the
\* configuration cache, and what it resolved and called on the way.
fetch(bucket, cache, lastHash, r, e) ==
    AnswerEarly(HttpsResponses[r], MethodResponses[r],
                AnswerAllowed(bucket, r, e, getCachedConfig(cache, lastHash, e),
                              [bucket |-> bucket, configCache |-> cache,
                               lastConfigHash |-> lastHash, subdomain |-> Undefined,
                               isProtected |-> FALSE, calls |-> <<>>, isValid |-> FALSE]),
                [bucket |-> bucket, configCache |-> cache, lastConfigHash |-> lastHash,
                 subdomain |-> Undefined, isProtected |-> FALSE, calls |-> <<>>,
                 isValid |-> FALSE])

----------------------------------------------------------------------------
(* The observer `series` follows one pair (client, subdomain), chosen in the *)
(* initial state: it counts the calls of registerFailedAttempt for the pair  *)
(* since the pair last had no live entry, and keeps the time of the first of *)
(* them. It is computed from the calls and the clock, never from the failure *)
(* counts of the table. `evicted` records that the pair's entry was removed  *)
(* by evictIfNeeded during the series; `tracked` is false when a series      *)
(* could not be started from a state without live entry.                     *)

NoSeries(pair) == [pair |-> pair, n |-> 0, since |-> 0, evicted |-> FALSE, tracked |-> TRUE]

\* The series is in its window: no failure registered yet, or the first one at most a window ago.
InWindow(rec) == rec.n = 0 \/ now <= rec.since + RATE_LIMIT_WINDOW_MS

HasLiveEntry(bucket, clientId, subdomain) ==
    BucketHas(pruneIfExpired(bucket, makeRateLimitKey(clientId, subdomain)),
              makeRateLimitKey(clientId, subdomain))

\* A registration for (clientId, subdomain) evicts the entry of the observed pair.
EvictedBy(g, bucket, clientId, subdomain) ==
    LET pruned == pruneIfExpired(bucket, makeRateLimitKey(clientId, subdomain))
        after == registerFailedAttempt(bucket, clientId, subdomain)
        observed == makeRateLimitKey(g.pair[1], g.pair[2])
    IN  BucketHas(pruned, observed) /\ ~BucketHas(after, observed)

SeriesRegister(g, bucket, clientId, subdomain) ==
    IF g.pair = <<clientId, subdomain>>
    THEN IF g.tracked /\ g.n > 0 /\ InWindow(g)
         THEN [g EXCEPT !.n = @ + 1]
         ELSE IF HasLiveEntry(bucket, clientId, subdomain)
              THEN [g EXCEPT !.n = 0, !.since = 0, !.evicted = FALSE, !.tracked = FALSE]
              ELSE [g EXCEPT !.n = 1, !.since = now, !.evicted = FALSE, !.tracked = TRUE]
    ELSE IF EvictedBy(g, bucket, clientId, subdomain)
         THEN [g EXCEPT !.evicted = TRUE]
         ELSE g

SeriesClear(g, clientId, subdomain) ==
    IF g.pair = <<clientId, subdomain>> THEN NoSeries(g.pair) ELSE g

----------------------------------------------------------------------------
(* The operations of the rate limiter, called directly (as ratelimit.test.js does) *)

\* The state after the modules are loaded, with the observer on the given pair.
InitObserving(pair) ==
    /\ RATE_LIMIT_BUCKET = <<>>
    /\ configCache = Null
    /\ lastConfigHash = Null
    /\ now = 0
    /\ last = [op |-> "init"]
    /\ series = NoSeries(pair)
    /\ suspended = <<>>
    /\ checks = 0

InitLimiter == \E p \in Pairs : InitObserving(p)

CallIsRateLimited(clientId, subdomain) ==
    /\ RATE_LIMIT_BUCKET' = isRateLimitedBucket(RATE_LIMIT_BUCKET, clientId, subdomain)
    /\ last' = [op |-> "isRateLimited", clientId |-> clientId, subdomain |-> subdomain,
                result |-> isRateLimited(RATE_LIMIT_BUCKET, clientId, subdomain)]
    /\ UNCHANGED <<configCache, lastConfigHash, now, series, suspended, checks>>

CallRegisterFailedAttempt(clientId, subdomain) ==
    /\ LET key == makeRateLimitKey(clientId, subdomain)
       IN  BucketHas(RATE_LIMIT_BUCKET, key) =>
               BucketGet(RATE_LIMIT_BUCKET, key).fails < limitFor(clientId) + MaxOver
    /\ series.pair = <<clientId, subdomain>> => series.n < limitFor(clientId) + MaxOver
    /\ RATE_LIMIT_BUCKET' = registerFailedAttempt(RATE_LIMIT_BUCKET, clientId, subdomain)
    /\ series' = SeriesRegister(series, RATE_LIMIT_BUCKET, clientId, subdomain)
    /\ last' = [op |-> "registerFailedAttempt", clientId |-> clientId, subdomain |-> subdomain,
                result |-> Undefined]
    /\ UNCHANGED <<configCache, lastConfigHash, now, suspended, checks>>

CallClearFailures(clientId, subdomain) ==
    /\ RATE_LIMIT_BUCKET' = clearFailures(RATE_LIMIT_BUCKET, clientId, subdomain)
    /\ series' = SeriesClear(series, clientId, subdomain)
    /\ last' = [op |-> "clearFailures", clientId |-> clientId, subdomain |-> subdomain,
                result |-> Undefined]
    /\ UNCHANGED <<configCache, lastConfigHash, now, suspended, checks>>

\* Time passes between two operations.
Tick ==
    /\ \E t \in TimePoints : t > now /\ now' = t
    /\ last' = [op |-> "tick"]
    /\ UNCHANGED <<RATE_LIMIT_BUCKET, configCache, lastConfigHash, series, suspended, checks>>

NextLimiter ==
    \/ \E p \in Pairs : CallIsRateLimited(p[1], p[2])
    \/ \E p \in Pairs : CallRegisterFailedAttempt(p[1], p[2])
    \/ \E p \in Pairs : CallClearFailures(p[1], p[2])
    \/ Tick

\* The rate limiter under any sequence of direct calls and time advances.
SpecLimiter == InitLimiter /\ [][NextLimiter]_vars

----------------------------------------------------------------------------
(* The worker: requests arrive one at a time, each handled to its response *)

\* The observer after a request of clientId for subdomain that made the given calls.
SeriesAfter(g, bucket, calls, clientId, subdomain) ==
    IF \E i \in 1..Len(calls) : calls[i] = "registerFailedAttempt"
    THEN SeriesRegister(g, bucket, clientId, subdomain)
    ELSE IF \E i \in 1..Len(calls) : calls[i] = "clearFailures"
    THEN SeriesClear(g, clientId, subdomain)
    ELSE g

Init == InitObserving(<<UNKNOWN, <<"a">> >>)

\* The failure count the table holds for the pair; 0 when it holds none.
FailsOf(bucket, clientId, subdomain) ==
    IF BucketHas(bucket, makeRateLimitKey(clientId, subdomain))
    THEN BucketGet(bucket, makeRateLimitKey(clientId, subdomain)).fails
    ELSE 0

\* The step of a fetch that returns out for a request of clientId.
FetchStep(r, e, out, clientId) ==
    /\ RATE_LIMIT_BUCKET' = out.bucket
    /\ configCache' = out.configCache
    /\ lastConfigHash' = out.lastConfigHash
    /\ series' = SeriesAfter(series, RATE_LIMIT_BUCKET, out.calls, clientId, out.subdomain)
    /\ last' = [op |-> "fetch", request |-> r, env |-> e, clientId |-> clientId,
                subdomain |-> out.subdomain, isProtected |-> out.isProtected,
                calls |-> out.calls, isValid |-> out.isValid,
                failsBefore |-> FailsOf(RATE_LIMIT_BUCKET, clientId, out.subdomain),
                response |-> out.response]
    /\ UNCHANGED <<now, suspended, checks>>

Fetch(r, e) ==
    FetchStep(r, e, fetch(RATE_LIMIT_BUCKET, configCache, lastConfigHash, r, e), ClientIds[r])

\* A variant of InvalidateConfigCache that keeps the hash.
InvalidateConfigCache_KeepsHash ==
    /\ configCache' = Null
    /\ last' = [op |-> "invalidateConfigCache"]
    /\ UNCHANGED <<RATE_LIMIT_BUCKET, lastConfigHash, now, series, suspended, checks>>

\* The exported hook that forgets the cached configuration.
InvalidateConfigCache ==
    /\ configCache' = Null
    /\ lastConfigHash' = Null
    /\ last' = [op |-> "invalidateConfigCache"]
    /\ UNCHANGED <<RATE_LIMIT_BUCKET, now, series, suspended, checks>>

Next ==
    \/ \E f \in Fetches : Fetch(f[1], f[2])
    \/ InvalidateConfigCache
    \/ Tick

\* The worker under any sequence of requests, cache invalidations and time advances.
Spec == Init /\ [][Next]_vars

----------------------------------------------------------------------------
(* Claims about the rate limiter *)

LastIs(op) == last.op = op

\* The last operation was `op`, applied to the observed pair.
LastOnObserved(op) ==
    LastIs(op) /\ <<last.clientId, last.subdomain>> = series.pair

ObservedKey == makeRateLimitKey(series.pair[1], series.pair[2])

ObservedLimit == limitFor(series.pair[1])

\* What the claim says an isRateLimited check of the observed pair returns, given the
\* failures registered for it in the current window.
ThresholdRule ==
    /\ series.n = ObservedLimit => last.result = TRUE
    /\ series.n = ObservedLimit - 1 => last.result = FALSE
    /\ series.n = 0 => last.result = FALSE

\* C2 as stated: starting from no live entry and within one window, the check after
\* exactly limitFor(client) registered failures returns true, after limitFor(client) - 1
\* false, and after clearFailures (no failure registered since) false.
C2_AsStated ==
    (LastOnObserved("isRateLimited") /\ series.tracked /\ InWindow(series)) => ThresholdRule

\* C2 as amended: the same, provided the pair's entry was not evicted from a full table
\* by a registration for another pair between its first registered failure and the check.
C2_ThresholdUnlessEvicted ==
    (LastOnObserved("isRateLimited") /\ series.tracked /\ InWindow(series) /\ ~series.evicted)
        => ThresholdRule

\* C2 witness: a check that returned true after exactly limitFor(client) registered
\* failures of a client other than "unknown", none of them lost to eviction.
C2_Witness ==
    /\ LastOnObserved("isRateLimited")
    /\ series.tracked /\ InWindow(series) /\ ~series.evicted
    /\ series.pair[1] # UNKNOWN
    /\ series.n = ObservedLimit
    /\ last.result = TRUE

\* The step is the call `op` for the pair p.
StepIs(op, p) ==
    /\ last'.op = op
    /\ <<last'.clientId, last'.subdomain>> = p
    /\ vars' # vars

\* The entry a registration creates at the current time.
FreshEntry(p) ==
    [key |-> makeRateLimitKey(p[1], p[2]), fails |-> 1, resetAt |-> now + RATE_LIMIT_WINDOW_MS]

\* The table holds an entry of p that reached the threshold and whose window has elapsed.
LimitedAndExpired(p) ==
    LET key == makeRateLimitKey(p[1], p[2])
    IN  /\ BucketHas(RATE_LIMIT_BUCKET, key)
        /\ BucketGet(RATE_LIMIT_BUCKET, key).fails >= limitFor(p[1])
        /\ now > BucketGet(RATE_LIMIT_BUCKET, key).resetAt

C6_Step ==
    \A p \in Pairs :
        LimitedAndExpired(p) =>
            LET key == makeRateLimitKey(p[1], p[2])
            IN  /\ rateLimitRetryHeaders(RATE_LIMIT_BUCKET, p[1], p[2]).RetryAfter = 0
                /\ StepIs("isRateLimited", p) =>
                        /\ last'.result = FALSE
                        /\ ~BucketHas(RATE_LIMIT_BUCKET', key)
                /\ StepIs("registerFailedAttempt", p) =>
                        BucketGet(RATE_LIMIT_BUCKET', key) = FreshEntry(p)

C7_UnknownIsStricter ==
    /\ limitFor(UNKNOWN) = 3
    /\ \A p \in Pairs : p[1] # UNKNOWN => limitFor(p[1]) = 10
    /\ limitFor(UNKNOWN) < MAX_FAILED_ATTEMPTS
    /\ LastIs("isRateLimited") =>
            LET key == makeRateLimitKey(last.clientId, last.subdomain)
                threshold == IF last.clientId = UNKNOWN THEN 3 ELSE 10
            IN  last.result = (/\ BucketHas(RATE_LIMIT_BUCKET, key)
                               /\ BucketGet(RATE_LIMIT_BUCKET, key).fails >= threshold)

\* C7 witness: "unknown" was found rate limited with exactly 3 failures while another
\* client with at least as many failures in its live entry is not rate limited.
C7_Witness ==
    /\ LastIs("isRateLimited")
    /\ last.clientId = UNKNOWN
    /\ last.result = TRUE
    /\ BucketGet(RATE_LIMIT_BUCKET, makeRateLimitKey(last.clientId, last.subdomain)).fails = 3
    /\ \E p \in Pairs :
            /\ p[1] # UNKNOWN
            /\ HasLiveEntry(RATE_LIMIT_BUCKET, p[1], p[2])
            /\ BucketGet(RATE_LIMIT_BUCKET, makeRateLimitKey(p[1], p[2])).fails >= 3
            /\ ~isRateLimited(RATE_LIMIT_BUCKET, p[1], p[2])

\* The keys of the table, in insertion order.
KeysOf(bucket) == [i \in 1..Len(bucket) |-> bucket[i].key]

Full == Len(RATE_LIMIT_BUCKET) = MAX_RATE_LIMIT_KEYS

C8_Step_AsStated ==
    \A p \in Pairs :
        (Full /\ StepIs("registerFailedAttempt", p)) =>
            IF HasLiveEntry(RATE_LIMIT_BUCKET, p[1], p[2])
            THEN KeysOf(RATE_LIMIT_BUCKET') = KeysOf(RATE_LIMIT_BUCKET)
            ELSE /\ RATE_LIMIT_BUCKET' = Append(Tail(RATE_LIMIT_BUCKET), FreshEntry(p))
                 /\ Len(RATE_LIMIT_BUCKET') = MAX_RATE_LIMIT_KEYS

\* C8 as stated: with a full table, a registration for a key with no live entry removes
\* exactly the entry inserted earliest and leaves the table full; a registration for a
\* key with a live entry evicts nothing.
C8_AsStated == [][C8_Step_AsStated]_vars

C8_Step ==
    \A p \in Pairs :
        (Full /\ StepIs("registerFailedAttempt", p)) =>
            LET key == makeRateLimitKey(p[1], p[2])
            IN  /\ Len(RATE_LIMIT_BUCKET') = MAX_RATE_LIMIT_KEYS
                /\ ~BucketHas(RATE_LIMIT_BUCKET, key) =>
                        RATE_LIMIT_BUCKET' = Append(Tail(RATE_LIMIT_BUCKET), FreshEntry(p))
                /\ (BucketHas(RATE_LIMIT_BUCKET, key) /\ ~HasLiveEntry(RATE_LIMIT_BUCKET, p[1], p[2])) =>
                        RATE_LIMIT_BUCKET' = Append(BucketDelete(RATE_LIMIT_BUCKET, key), FreshEntry(p))
                /\ HasLiveEntry(RATE_LIMIT_BUCKET, p[1], p[2]) =>
                        KeysOf(RATE_LIMIT_BUCKET') = KeysOf(RATE_LIMIT_BUCKET)

\* C8 as amended: with a full table, a registration for a key that has no entry in the
\* table at all removes exactly the entry inserted earliest; a registration for a key
\* whose own expired entry is still in the table removes that entry only, whatever its
\* position; the table is full afterwards in both cases; a registration for a key with
\* a live entry evicts nothing.
C8_EvictsOldestInserted == [][C8_Step]_vars

\* C8 witness: the observed pair's entry was evicted and the table is full, its newest
\* entry being the one the last registration created.
C8_Witness ==
    /\ LastIs("registerFailedAttempt")
    /\ series.evicted
    /\ ~BucketHas(RATE_LIMIT_BUCKET, ObservedKey)
    /\ Full
    /\ RATE_LIMIT_BUCKET[Len(RATE_LIMIT_BUCKET)] = FreshEntry(<<last.clientId, last.subdomain>>)

\* C9: the table never holds more than MAX_RATE_LIMIT_KEYS entries.
C9_TableBounded == Len(RATE_LIMIT_BUCKET) <= MAX_RATE_LIMIT_KEYS

\* C9 witness: the table is full after a registration that had to evict.
C9_Witness ==
    /\ LastIs("registerFailedAttempt")
    /\ Full
    /\ series.evicted /\ series.n > 0
    /\ ~BucketHas(RATE_LIMIT_BUCKET, ObservedKey)

----------------------------------------------------------------------------
(* Claims about the worker *)

\* The pair has a live entry in the table at the present time.
LiveEntry(bucket, clientId, subdomain) ==
    \E i \in 1..Len(bucket) :
        bucket[i].key = makeRateLimitKey(clientId, subdomain) /\ now <= bucket[i].resetAt

\* The pair is rate limited at the present time: a live entry holds limitFor(clientId) failures.
Limited(bucket, clientId, subdomain) ==
    \E i \in 1..Len(bucket) :
        /\ bucket[i].key = makeRateLimitKey(clientId, subdomain)
        /\ now <= bucket[i].resetAt
        /\ bucket[i].fails >= limitFor(clientId)

\* The Authorization header of the request decodes to a pair the tenant expects.
Carries ==
    [r \in RequestIds, s \in Subdomains, e \in EnvIds |->
        LET provided == ProvidedCredentials(AuthorizationHeaders[r])
            expected == Credentials[s, e]
        IN  /\ provided.ok
            /\ IF expected.isArray
               THEN \E i \in 1..Len(expected.pairs) :
                       /\ provided.user = expected.pairs[i].user
                       /\ provided.pass = expected.pairs[i].pass
               ELSE provided.user = expected.user /\ provided.pass = expected.pass]

\* undefined, empty, or whitespace only
Blank(v) == v = Undefined \/ \A i \in 1..Len(v) : v[i] = " "

\* What the environment holds for the tenant is no configured CredentialSpec.
Unconfigured ==
    [s \in Subdomains, e \in EnvIds |->
        LET expected == Credentials[s, e]
        IN  IF expected.isArray
            THEN \/ Len(expected.pairs) = 0
                 \/ \E i \in 1..Len(expected.pairs) :
                       Blank(expected.pairs[i].user) \/ Blank(expected.pairs[i].pass)
            ELSE Blank(expected.user) \/ Blank(expected.pass)]

Called(l, fn) == \E i \in 1..Len(l.calls) : l.calls[i] = fn

\* The request of l was resolved to a protected subdomain.
ToProtected(l) == l.op = "fetch" /\ l.isProtected

\* The request of l was handed to authorizeProtectedSubdomain.
Authorizing(l) == ToProtected(l) /\ Truthy(RedirectTargets[l.subdomain, l.env])

\* The request of l reached the rate-limit check: its tenant has configured credentials.
RateChecked(l) == Authorizing(l) /\ ~Unconfigured[l.subdomain, l.env]

C1_Step ==
    ToProtected(last') =>
        LET limited == Limited(RATE_LIMIT_BUCKET, last'.clientId, last'.subdomain)
            accepted == /\ Called(last', "checkBasicAuth")
                        /\ last'.isValid
                        /\ Carries[last'.request, last'.subdomain, last'.env]
        IN  /\ last'.response.status = 302 => ~limited /\ accepted
            /\ ~(~limited /\ accepted) => last'.response.status \in {401, 404, 429}

\* C1: a request to a protected subdomain is answered 302 only if its client was not
\* rate limited when it arrived and checkBasicAuth accepted its header against the
\* credentials of the tenant; in every other case it is answered 401, 404 or 429.
C1_RedirectOnlyIfAuthorized == [][C1_Step]_vars

\* C1 witness: a request with the second pair of the list tenant m is redirected.
C1_Witness ==
    ToProtected(last) /\ last.request = "m_bo" /\ last.response.status = 302

C3_Step ==
    (RateChecked(last') /\ Limited(RATE_LIMIT_BUCKET, last'.clientId, last'.subdomain)) =>
        /\ last'.response.status = 429
        /\ ~Called(last', "checkBasicAuth")
        /\ ~Called(last', "registerFailedAttempt")
        /\ ~Called(last', "clearFailures")
        /\ RATE_LIMIT_BUCKET' = RATE_LIMIT_BUCKET

\* C3: a request that reaches the rate-limit check while its pair is rate limited is
\* answered 429, whatever its header; checkBasicAuth, registerFailedAttempt and
\* clearFailures are not called, and the table is left as it was.
C3_RateLimitBeforeCredentials == [][C3_Step]_vars

\* C3 witness: a rate-limited client that presents the credentials of a is answered
\* 429, and the failure count of its pair is what it was.
C3_Witness ==
    /\ RateChecked(last) /\ last.request = "a_al" /\ last.response.status = 429
    /\ Carries[last.request, last.subdomain, last.env]
    /\ last.failsBefore = FailsOf(RATE_LIMIT_BUCKET, last.clientId, last.subdomain)

C4_Step ==
    ( /\ RateChecked(last')
      /\ ~Limited(RATE_LIMIT_BUCKET, last'.clientId, last'.subdomain)
      /\ ~Carries[last'.request, last'.subdomain, last'.env] ) =>
        LET key == makeRateLimitKey(last'.clientId, last'.subdomain)
        IN  /\ last'.response.status = 401
            /\ BucketHas(RATE_LIMIT_BUCKET', key)
            /\ IF LiveEntry(RATE_LIMIT_BUCKET, last'.clientId, last'.subdomain)
               THEN BucketGet(RATE_LIMIT_BUCKET', key).fails
                        = BucketGet(RATE_LIMIT_BUCKET, key).fails + 1
               ELSE /\ BucketGet(RATE_LIMIT_BUCKET', key).fails = 1
                    /\ BucketGet(RATE_LIMIT_BUCKET', key).resetAt = now + RATE_LIMIT_WINDOW_MS

\* C4: a request that reaches the rate-limit check from a client that is not rate
\* limited, with a header that carries no pair of the tenant, is answered 401, and the
\* failure count of its pair grows by one: on a live entry, or from a new entry with
\* one failure whose window ends RATE_LIMIT_WINDOW_MS from now.
C4_FailureIsCounted == [][C4_Step]_vars

\* C4 witness: a request without Authorization header is the second failure of its pair.
C4_Witness ==
    /\ RateChecked(last) /\ last.request = "a_none" /\ last.response.status = 401
    /\ last.failsBefore = 1
    /\ FailsOf(RATE_LIMIT_BUCKET, last.clientId, last.subdomain) = 2

C5_Step ==
    (last'.op = "fetch" /\ Called(last', "clearFailures")) =>
        /\ last'.isValid
        /\ Carries[last'.request, last'.subdomain, last'.env]
        /\ last'.calls = <<"isRateLimited", "checkBasicAuth", "clearFailures">>
        /\ ~BucketHas(RATE_LIMIT_BUCKET', makeRateLimitKey(last'.clientId, last'.subdomain))
        /\ FailsOf(RATE_LIMIT_BUCKET', last'.clientId, last'.subdomain) = 0

\* C5: clearFailures is called only by a request whose header checkBasicAuth accepted,
\* and after that request the table holds no entry for its pair, so that the pair is
\* not rate limited.
C5_SuccessRemovesEntry == [][C5_Step]_vars

\* C5 witness: a request with the credentials of a, after two failures of its pair,
\* leaves no entry.
C5_Witness ==
    /\ last.op = "fetch" /\ last.request = "a_al" /\ Called(last, "clearFailures")
    /\ last.failsBefore = 2
    /\ ~BucketHas(RATE_LIMIT_BUCKET, makeRateLimitKey(last.clientId, last.subdomain))

\* C10: a request to a protected subdomain whose tenant has no configured
\* CredentialSpec is never redirected to the target, whatever its header; handed to
\* authorizeProtectedSubdomain it is answered 401, and the rate limiter and
\* checkBasicAuth are not called for it.
C10_UnconfiguredIsRejected ==
    (ToProtected(last) /\ Unconfigured[last.subdomain, last.env]) =>
        /\ last.response.status # 302
        /\ Authorizing(last) => last.response.status = 401 /\ last.calls = <<>>

\* C10 witness: the tenant with the empty list answers 401 to the fallback credentials,
\* which the tenant f accepts.
C10_Witness ==
    /\ ToProtected(last) /\ last.request = "e_fb" /\ last.response.status = 401
    /\ Unconfigured[last.subdomain, last.env]
    /\ Carries[last.request, <<"f">>, last.env]

----------------------------------------------------------------------------
(* The functions that read no state of the worker, called directly (as the unit *)
(* tests do): the initial state draws the arguments, one step makes the call    *)

\* The longest list of credentials drawn.
MaxList == 2

\* The users and passwords of the drawn credentials; a provided one may be empty.
SomeUsers == { <<"a">>, <<"b">> }

SomePasses == { <<"1">>, <<"2">> }

CredentialLists ==
    UNION { [1..n -> [user : SomeUsers, pass : SomePasses]] : n \in 0..MaxList }

\* The header a client sends for user and pass.
BasicHeader(user, pass) == BasicPrefix \o base64Encode(user \o <<":">> \o pass)

AuthInputs ==
    [op : {"input"}, fn : {"checkBasicAuth"}, user : SomeUsers \cup {<<>>},
     pass : SomePasses \cup {<<>>}, pairs : CredentialLists]

\* Values of USERS_<KEY> that are not a JSON array of objects with string user and pass.
MalformedUsers ==
    [truncated |-> <<"[", "{", "\"", "u", "s", "e", "r", "\"", ":", "\"", "a", "l", "\"", ",", "\"", "p", "a", "s", "s", "\"", ":", "\"", "p", "w", "\"", "}", ",">>,
     word |-> <<"o", "o", "p", "s">>,
     object |-> <<"{", "\"", "u", "s", "e", "r", "\"", ":", "\"", "a", "l", "\"", ",", "\"", "p", "a", "s", "s", "\"", ":", "\"", "p", "w", "\"", "}">>,
     text |-> <<"\"", "a", "l", "\"">>,
     number |-> <<"1", "2">>,
     numbers |-> <<"[", "1", ",", " ", "2", "]">>,
     nopass |-> <<"[", "{", "\"", "u", "s", "e", "r", "\"", ":", "\"", "a", "l", "\"", "}", "]">>,
     numeric |-> <<"[", "{", "\"", "u", "s", "e", "r", "\"", ":", "1", ",", "\"", "p", "a", "s", "s", "\"", ":", "\"", "p", "w", "\"", "}", "]">>,
     nulls |-> <<"[", "n", "u", "l", "l", "]">>,
     onebad |-> <<"[", "{", "\"", "u", "s", "e", "r", "\"", ":", "\"", "a", "l", "\"", ",", "\"", "p", "a", "s", "s", "\"", ":", "\"", "p", "w", "\"", "}", ",", "{", "\"", "u", "s", "e", "r", "\"", ":", "\"", "b", "o", "\"", "}", "]">>]

\* A JSON array of one pair, bo:p2.
WellFormedUsers == <<"[", "{", "\"", "u", "s", "e", "r", "\"", ":", "\"", "b", "o", "\"", ",", "\"", "p", "a", "s", "s", "\"", ":", "\"", "p", "2", "\"", "}", "]">>

\* The subdomains drawn, with the <KEY> of their variables.
KeyOf == [s \in { <<"a">>, <<"a", ".", "b">> } |->
            IF s = <<"a">> THEN <<"A">> ELSE <<"A", "_", "B">>]

\* The drawn variables of a tenant; Undefined stands for a variable that is not set.
CredentialInputs ==
    [op : {"input"}, fn : {"getCredentials"}, subdomain : DOMAIN KeyOf,
     users : {Undefined, <<>>, WellFormedUsers} \cup { MalformedUsers[k] : k \in DOMAIN MalformedUsers },
     user : {Undefined, <<>>, <<"a", "l">>},
     pass : {Undefined, <<>>, <<"p", "w">>},
     fallback : {Undefined, <<"f", "b">>},
     sent : { << <<"a", "l">>, <<"p", "w">> >>, << <<"f", "b">>, <<"f", "b">> >>,
              << <<"a", "l">>, <<"f", "b">> >>, << <<"f", "b">>, <<"p", "w">> >> }]

\* env with the drawn variables of the tenant; fallback is both FALLBACK_USER and
\* FALLBACK_PASS.
EnvOf(in) ==
    { b \in { <<<<"U", "S", "E", "R", "S", "_">> \o KeyOf[in.subdomain], in.users>>,
              <<<<"U", "S", "E", "R", "_">> \o KeyOf[in.subdomain], in.user>>,
              <<<<"P", "A", "S", "S", "_">> \o KeyOf[in.subdomain], in.pass>>,
              <<FALLBACK_USER, in.fallback>>,
              <<FALLBACK_PASS, in.fallback>> } : b[2] # Undefined }

\* The hostnames drawn.
SomeHostnames == {<<"a", ".", "x", ".", "i", "o">>, <<"x", ".", "i", "o">>, <<"a", "x", ".", "i", "o">>, <<"a", ".", "b", ".", "x", ".", "i", "o">>, <<"a", ".", ".", "x", ".", "i", "o">>, <<"a", ".", "y", ".", "i", "o">>, <<>>}

\* The suffixes of the arrays drawn; "x.io" and "" are not what parseCommaList returns,
\* but what a caller may pass.
SomeSuffixes == {<<".", "x", ".", "i", "o">>, <<"x", ".", "i", "o">>, <<".", "i", "o">>, <<".", "y", ".", "i", "o">>, <<".", "b", ".", "x", ".", "i", "o">>, <<>>}

MaxSuffixes == 2

SuffixLists == UNION { [1..n -> SomeSuffixes] : n \in 0..MaxSuffixes }

\* Raw values of ALLOWED_HOST_SUFFIXES, each with the suffixes it stands for.
RawSuffixes ==
    << [raw |-> <<"x", ".", "i", "o">>, parsed |-> <<<<".", "x", ".", "i", "o">>>>],
      [raw |-> <<".", "x", ".", "i", "o">>, parsed |-> <<<<".", "x", ".", "i", "o">>>>],
      [raw |-> <<"i", "o", ",", " ", "x", ".", "i", "o">>, parsed |-> <<<<".", "i", "o">>, <<".", "x", ".", "i", "o">>>>],
      [raw |-> <<"x", ".", "i", "o", ",", "i", "o">>, parsed |-> <<<<".", "x", ".", "i", "o">>, <<".", "i", "o">>>>],
      [raw |-> <<" ", "X", ".", "I", "O", " ", ",">>, parsed |-> <<<<".", "x", ".", "i", "o">>>>],
      [raw |-> <<"y", ".", "i", "o">>, parsed |-> <<<<".", "y", ".", "i", "o">>>>],
      [raw |-> <<>>, parsed |-> <<>>],
      [raw |-> <<",">>, parsed |-> <<>>],
      [raw |-> <<"x", ".", ".", "i", "o", ",", "b", ".", "x", ".", "i", "o">>, parsed |-> <<<<".", "b", ".", "x", ".", "i", "o">>>>],
      [raw |-> <<"x", "_", "i", "o", ",", " ", "-", "x", ".", "i", "o", ",", " ", "x", ".", "i", "o", ".">>, parsed |-> <<>>] >>

HostInputs ==
    [op : {"input"}, fn : {"hostIsAllowed", "extractSubdomain"}, hostname : SomeHostnames,
     suffixes : SuffixLists]
    \cup [op : {"input"}, fn : {"extractSubdomainOfString"}, hostname : SomeHostnames,
          given : DOMAIN RawSuffixes]

\* The longest raw suffix drawn.
MaxSuffixLen == 3

\* The characters of the raw suffixes drawn.
SuffixChars == {"a", "B", "1", ".", "-", ":", "[", "]", " ", "_"}

\* Every text of up to MaxSuffixLen of these characters, and undefined.
RawTexts == UNION { [1..n -> SuffixChars] : n \in 0..MaxSuffixLen } \cup {Undefined}

SuffixInputs == [op : {"input"}, fn : {"validateAndNormalizeSuffix"}, suffix : RawTexts]

\* The most tokens of a raw list drawn.
MaxTokens == 3

\* The tokens of the raw lists drawn: none holds a comma.
SomeTokens == {<<"x", ".", "i", "o">>, <<" ", "X", ".", "i", "o", " ">>, <<".", "y", ".", "i", "o">>, <<"a", " ", "b">>, <<"a", ".", ".", "b">>, <<"-", "a">>, <<>>, <<" ">>, <<"[", ":", ":", "1", "]">>}

RECURSIVE JoinWithCommas(_)
JoinWithCommas(tokens) ==
    IF Len(tokens) = 0 THEN <<>>
    ELSE IF Len(tokens) = 1 THEN tokens[1]
    ELSE tokens[1] \o <<",">> \o JoinWithCommas(Tail(tokens))

\* The raw lists drawn, each as the tokens that are joined with commas; and no list.
ListInputs ==
    [op : {"input"}, fn : {"parseCommaList"}, absent : {FALSE},
     tokens : UNION { [1..n -> SomeTokens] : n \in 0..MaxTokens }]
    \cup [op : {"input"}, fn : {"parseCommaList"}, absent : {TRUE}, tokens : {<<>>}]

\* The longest string compared.
MaxCompared == 3

\* Every string of up to MaxCompared characters out of a, A and b, and undefined.
ComparedValues == UNION { [1..n -> {"a", "A", "b"}] : n \in 0..MaxCompared } \cup {Undefined}

CompareInputs == [op : {"input"}, fn : {"constantTimeEqual"}, a : ComparedValues, b : ComparedValues]

\* The texts a header carries in base64.
SomeTexts == { <<"a", ":", "1">>, <<"a", ":", "1", ":", "2">>, <<"a", "1">>, <<":">>,
               <<"a", ":">>, <<":", "1">>, <<>> }

\* The header of each kind that carries the text.
HeaderOf(kind, text) ==
    CASE kind = "absent" -> Undefined
      [] kind = "empty" -> <<>>
      [] kind = "bearer" -> <<"B", "e", "a", "r", "e", "r", " ">> \o base64Encode(text)
      [] kind = "lowercase" -> <<"b", "a", "s", "i", "c", " ">> \o base64Encode(text)
      [] kind = "nospace" -> <<"B", "a", "s", "i", "c">> \o base64Encode(text)
      [] kind = "bare" -> base64Encode(text)
      [] kind = "basic" -> BasicPrefix \o base64Encode(text)

HeaderInputs ==
    [op : {"input"}, fn : {"checkBasicAuthHeader"},
     kind : {"absent", "empty", "bearer", "lowercase", "nospace", "bare", "basic"},
     text : SomeTexts,
     user : {<<"a">>, <<>>, <<"a", ":", "1">>},
     pass : {<<"1">>, <<"1", ":", "2">>, <<"2">>, <<>>}]

\* Values of the CF-Connecting-IP header: not set, empty, addresses, the text "unknown",
\* a blank, and texts of 63, 64 and 65 characters.
SomeAddresses ==
    { Undefined, <<>>, <<"1", ".", "2">>, <<":", ":", "1">>, UNKNOWN, <<" ">> }
    \cup { [i \in 1..n |-> c] : n \in 63..65, c \in {"1", "x"} }

AddressInputs == [op : {"input"}, fn : {"getClientIdFromCloudflare"}, ip : SomeAddresses]

\* The tokens of the raw ALLOWED_HOST_SUFFIXES drawn for a request: one that is valid,
\* two that are not, and an empty one.
ResolveTokens == {<<"x", ".", "i", "o">>, <<"a", ".", ".", "b">>, <<"-", "a">>, <<>>}

\* The raw PROTECTED_SUBDOMAINS drawn for a request.
ProtectedTexts == {<<"a">>, <<"a", ",", ",", "m">>, <<",", " ">>, Undefined}

\* A request to a host name under raw ALLOWED_HOST_SUFFIXES and PROTECTED_SUBDOMAINS.
ResolveInputs ==
    [op : {"input"}, fn : {"resolve"},
     hostname : {<<"A", ".", "x", ".", "i", "o">>, <<"a", ".", "y", ".", "i", "o">>, <<"x", ".", "i", "o">>},
     tokens : UNION { [1..n -> ResolveTokens] : n \in 0..2 },
     protected : ProtectedTexts]

CallInputs ==
    AuthInputs \cup CredentialInputs \cup HostInputs \cup SuffixInputs \cup ListInputs
    \cup CompareInputs \cup HeaderInputs \cup AddressInputs \cup ResolveInputs

InitCalls ==
    /\ RATE_LIMIT_BUCKET = <<>>
    /\ configCache = Null
    /\ lastConfigHash = Null
    /\ now = 0
    /\ series = NoSeries(<<UNKNOWN, <<"a">> >>)
    /\ suspended = <<>>
    /\ checks = 0
    /\ last \in CallInputs

CallCheckBasicAuth ==
    /\ last.op = "input" /\ last.fn = "checkBasicAuth"
    /\ last' = [op |-> "checkBasicAuth", user |-> last.user, pass |-> last.pass,
                pairs |-> last.pairs,
                result |-> checkBasicAuth(BasicHeader(last.user, last.pass),
                                          ExpectedList(last.pairs)),
                compared |-> [i \in 1..Len(last.pairs) |->
                                Compared(ProvidedCredentials(BasicHeader(last.user, last.pass)),
                                         last.pairs[i].user, last.pairs[i].pass)]]
    /\ UNCHANGED <<RATE_LIMIT_BUCKET, configCache, lastConfigHash, now, series, suspended, checks>>

\* getCredentials(subdomain, env), and what authorizeProtectedSubdomain then answers to a
\* client that is not rate limited and sends the given header.
CredentialsStep(in, expected, authHeader) ==
    last' = [op |-> "getCredentials", in |-> in, result |-> expected,
             auth |-> Authorize(<<>>, UNKNOWN, in.subdomain, hasValid(expected), authHeader,
                                checkBasicAuth(authHeader, expected))]

CallGetCredentials ==
    /\ last.op = "input" /\ last.fn = "getCredentials"
    /\ CredentialsStep(last, getCredentials(last.subdomain, EnvOf(last)),
                       BasicHeader(last.sent[1], last.sent[2]))
    /\ UNCHANGED <<RATE_LIMIT_BUCKET, configCache, lastConfigHash, now, series, suspended, checks>>

CallHostIsAllowed ==
    /\ last.op = "input" /\ last.fn = "hostIsAllowed"
    /\ last' = [op |-> "hostIsAllowed", hostname |-> last.hostname, suffixes |-> last.suffixes,
                result |-> hostIsAllowed(last.hostname, last.suffixes)]
    /\ UNCHANGED <<RATE_LIMIT_BUCKET, configCache, lastConfigHash, now, series, suspended, checks>>

\* extractSubdomain(hostname, allowedHostSuffixes) with an array.
CallExtractSubdomain ==
    /\ last.op = "input" /\ last.fn = "extractSubdomain"
    /\ last' = [op |-> "extractSubdomain", hostname |-> last.hostname,
                suffixes |-> last.suffixes, isArray |-> TRUE,
                result |-> extractSubdomainOf(last.hostname, last.suffixes, TRUE)]
    /\ UNCHANGED <<RATE_LIMIT_BUCKET, configCache, lastConfigHash, now, series, suspended, checks>>

\* extractSubdomain(hostname, allowedHostSuffixes) with a string.
CallExtractSubdomainOfString ==
    /\ last.op = "input" /\ last.fn = "extractSubdomainOfString"
    /\ last' = [op |-> "extractSubdomain", hostname |-> last.hostname,
                suffixes |-> RawSuffixes[last.given].parsed, isArray |-> FALSE,
                result |-> extractSubdomainOf(last.hostname, RawSuffixes[last.given].raw, FALSE)]
    /\ UNCHANGED <<RATE_LIMIT_BUCKET, configCache, lastConfigHash, now, series, suspended, checks>>

CallValidateAndNormalizeSuffix ==
    /\ last.op = "input" /\ last.fn = "validateAndNormalizeSuffix"
    /\ last' = [op |-> "validateAndNormalizeSuffix", suffix |-> last.suffix,
                result |-> validateAndNormalizeSuffix(last.suffix)]
    /\ UNCHANGED <<RATE_LIMIT_BUCKET, configCache, lastConfigHash, now, series, suspended, checks>>

CallParseCommaList ==
    /\ last.op = "input" /\ last.fn = "parseCommaList"
    /\ last' = [op |-> "parseCommaList", tokens |-> last.tokens, absent |-> last.absent,
                result |-> parseCommaList(IF last.absent THEN Undefined
                                          ELSE JoinWithCommas(last.tokens))]
    /\ UNCHANGED <<RATE_LIMIT_BUCKET, configCache, lastConfigHash, now, series, suspended, checks>>

\* constantTimeEqual(a, b), with what constantTimeEqual(b, a) returns and the iterations of each.
CallConstantTimeEqual ==
    /\ last.op = "input" /\ last.fn = "constantTimeEqual"
    /\ last' = [op |-> "constantTimeEqual", a |-> last.a, b |-> last.b,
                result |-> constantTimeEqual(last.a, last.b),
                swapped |-> constantTimeEqual(last.b, last.a),
                iterations |-> Iterations(last.a, last.b)]
    /\ UNCHANGED <<RATE_LIMIT_BUCKET, configCache, lastConfigHash, now, series, suspended, checks>>

\* checkBasicAuth with a header of the drawn kind against one expected pair.
CallCheckBasicAuthHeader ==
    /\ last.op = "input" /\ last.fn = "checkBasicAuthHeader"
    /\ last' = [op |-> "checkBasicAuthHeader", kind |-> last.kind, text |-> last.text,
                user |-> last.user, pass |-> last.pass,
                result |-> checkBasicAuth(HeaderOf(last.kind, last.text),
                                          ExpectedPair(last.user, last.pass))]
    /\ UNCHANGED <<RATE_LIMIT_BUCKET, configCache, lastConfigHash, now, series, suspended, checks>>

\* getClientIdFromCloudflare for a request with the drawn header, and the threshold
\* limitFor gives the result.
CallGetClientIdFromCloudflare ==
    /\ last.op = "input" /\ last.fn = "getClientIdFromCloudflare"
    /\ last' = [op |-> "getClientIdFromCloudflare", ip |-> last.ip,
                result |-> getClientIdFromCloudflare([cfConnectingIp |-> last.ip]),
                limit |-> limitFor(getClientIdFromCloudflare([cfConnectingIp |-> last.ip]))]
    /\ UNCHANGED <<RATE_LIMIT_BUCKET, configCache, lastConfigHash, now, series, suspended, checks>>

\* What lines 168-178 of fetch resolve for a host name once the configuration is parsed.
Resolved(hostname, config) ==
    LET found == resolveSubdomain(toLowerCase(hostname), config.allowedHostSuffixes)
    IN  [allowedHostSuffixes |-> config.allowedHostSuffixes,
         protectedSubdomains |-> config.protectedSubdomains,
         allowed |-> found.error = NoResponse,
         subdomain |-> found.subdomain,
         key |-> IF found.error = NoResponse
                 THEN <<"L", "I", "N", "K", "_">> \o NormalizedSubdomain(found.subdomain)
                 ELSE Undefined,
         isProtected |-> found.error = NoResponse /\ found.subdomain \in config.protectedSubdomains]

\* Lines 168-178 of fetch for a request to the drawn host name under the drawn raw
\* configuration: getCachedConfig, resolveSubdomain, the key of getRedirectTarget, isProtected.
CallResolve ==
    /\ last.op = "input" /\ last.fn = "resolve"
    /\ last' = [op |-> "resolve", hostname |-> last.hostname, tokens |-> last.tokens,
                protected |-> last.protected]
               @@ Resolved(last.hostname,
                           ParseConfig({<<ALLOWED_HOST_SUFFIXES, JoinWithCommas(last.tokens)>>,
                                        <<PROTECTED_SUBDOMAINS, last.protected>>}))
    /\ UNCHANGED <<RATE_LIMIT_BUCKET, configCache, lastConfigHash, now, series, suspended, checks>>

NextCalls ==
    \/ CallResolve
    \/ CallCheckBasicAuth
    \/ CallGetCredentials
    \/ CallHostIsAllowed
    \/ CallExtractSubdomain
    \/ CallExtractSubdomainOfString
    \/ CallValidateAndNormalizeSuffix
    \/ CallParseCommaList
    \/ CallConstantTimeEqual
    \/ CallCheckBasicAuthHeader
    \/ CallGetClientIdFromCloudflare

\* Every function under every drawn argument.
SpecCalls == InitCalls /\ [][NextCalls]_vars

----------------------------------------------------------------------------
(* Claims about the functions called directly *)

\* C11: against a list of pairs, the credential check accepts a provided user and pass
\* exactly when one entry of the list has that user and that pass; the user of one
\* entry with the pass of another is rejected.
C11_ListMatchesOneEntry ==
    last.op = "checkBasicAuth" =>
        (last.result <=> \E i \in 1..Len(last.pairs) :
                            last.pairs[i].user = last.user /\ last.pairs[i].pass = last.pass)

\* C11 witness: the list a:1, b:2 rejected the provided a:2.
C11_Witness ==
    /\ last.op = "checkBasicAuth"
    /\ last.pairs = <<[user |-> <<"a">>, pass |-> <<"1">>], [user |-> <<"b">>, pass |-> <<"2">>]>>
    /\ last.user = <<"a">> /\ last.pass = <<"2">>
    /\ last.result = FALSE

\* A variable that is set and not empty.
IsSet(v) == v # Undefined /\ v # <<>>

\* The single pair of the drawn tenant: each field its own variable when set, else the fallback.
SingleOf(in) ==
    [isArray |-> FALSE,
     user |-> IF IsSet(in.user) THEN in.user ELSE in.fallback,
     pass |-> IF IsSet(in.pass) THEN in.pass ELSE in.fallback]

IsMalformed(users) == \E k \in DOMAIN MalformedUsers : users = MalformedUsers[k]

\* C12: when USERS_<KEY> is set but is not a JSON array of objects with string user and
\* pass, getCredentials returns the single pair, and a request that sends that pair is
\* authorized: no error, no refusal of the tenant.
C12_MalformedListFallsBack ==
    (last.op = "getCredentials" /\ IsMalformed(last.in.users)) =>
        /\ last.result = SingleOf(last.in)
        /\ (/\ IsSet(SingleOf(last.in).user) /\ IsSet(SingleOf(last.in).pass)
            /\ last.in.sent = <<SingleOf(last.in).user, SingleOf(last.in).pass>>)
              => last.auth.response = NoResponse /\ last.auth.isValid

\* C12 witness: with truncated JSON in USERS_<KEY>, the request that sends the pair of
\* USER_<KEY> and PASS_<KEY> is authorized.
C12_Witness ==
    /\ last.op = "getCredentials"
    /\ last.in.users = MalformedUsers.truncated
    /\ last.in.user = <<"a", "l">> /\ last.in.pass = <<"p", "w">>
    /\ last.in.sent = << <<"a", "l">>, <<"p", "w">> >>
    /\ last.auth.response = NoResponse

\* C13: without a usable multi-user value, the expected user is USER_<KEY> when set and
\* not empty and FALLBACK_USER otherwise, the expected pass PASS_<KEY> when set and not
\* empty and FALLBACK_PASS otherwise, <KEY> being the subdomain in upper case with '_'
\* for every '.'.
C13_FieldsFallBackIndependently ==
    (last.op = "getCredentials" /\ last.in.users # WellFormedUsers) =>
        /\ ~last.result.isArray
        /\ last.result.user = (IF IsSet(last.in.user) THEN last.in.user ELSE last.in.fallback)
        /\ last.result.pass = (IF IsSet(last.in.pass) THEN last.in.pass ELSE last.in.fallback)

\* C13 witness: the tenant a.b with USER_A_B set and PASS_A_B not set expects its own
\* user with the fallback pass.
C13_Witness ==
    /\ last.op = "getCredentials"
    /\ last.in.subdomain = <<"a", ".", "b">>
    /\ last.in.users = Undefined /\ last.in.pass = Undefined
    /\ last.result = [isArray |-> FALSE, user |-> <<"a", "l">>, pass |-> <<"f", "b">>]

C14_Step ==
    ( /\ RateChecked(last')
      /\ ~Limited(RATE_LIMIT_BUCKET, last'.clientId, last'.subdomain) ) =>
        LET length == Len(AuthorizationHeaders[last'.request])
        IN  /\ length > 4096 =>
                /\ last'.response.status = 401
                /\ last'.calls = <<"isRateLimited", "registerFailedAttempt">>
                /\ FailsOf(RATE_LIMIT_BUCKET', last'.clientId, last'.subdomain)
                      = IF LiveEntry(RATE_LIMIT_BUCKET, last'.clientId, last'.subdomain)
                        THEN last'.failsBefore + 1
                        ELSE 1
            /\ length = 4096 => Called(last', "checkBasicAuth")

\* C14: a request that reaches the header check with an Authorization header of more
\* than 4096 characters is answered 401 and registers exactly one failed attempt (one
\* call of registerFailedAttempt: one more failure on a live entry, the first failure
\* of a new window otherwise), and the header is not passed to checkBasicAuth; a header
\* of exactly 4096 characters is passed to checkBasicAuth.
C14_OverlongHeaderIsRefused == [][C14_Step]_vars

\* C14 witness: a request with a header of more than 4096 characters is the first
\* failure of its pair, among requests of which another has exactly 4096 characters.
C14_Witness ==
    /\ RateChecked(last) /\ last.request = "a_spaced" /\ last.response.status = 401
    /\ last.failsBefore = 0
    /\ FailsOf(RATE_LIMIT_BUCKET, last.clientId, last.subdomain) = 1
    /\ Len(AuthorizationHeaders["a_exact"]) = 4096
    /\ Len(AuthorizationHeaders["a_spaced"]) > 4096

----------------------------------------------------------------------------
(* The worker with overlapping requests. fetch runs without interruption up to *)
(* `await authorizeProtectedSubdomain(...)`; authorizeProtectedSubdomain holds *)
(* no await, so that all it does to the table is done when fetch is suspended. *)
(* A suspended handler holds its response, and returns it when it is resumed.  *)

\* The handlers that may be suspended at the same time.
MaxSuspended == 2

\* The requests that overlap.
OverlapFetches ==
    { <<r, "main">> : r \in {"a_wrong", "a_al", "m_wrong", "public"} }

\* fetch(request, env) reaches the await: the subdomain is protected and has a target.
Awaits(out, e) == out.isProtected /\ Truthy(RedirectTargets[out.subdomain, e])

\* The calls of checkBasicAuth in the life of the observed pair's entry, after a request
\* of clientId for subdomain that made the given calls: counted from the request that
\* creates the entry, until the entry expires, is cleared or is evicted.
ChecksAfter(n, live, evicts, calls, observed) ==
    IF observed
    THEN IF \E i \in 1..Len(calls) : calls[i] = "clearFailures" THEN 0
         ELSE IF \E i \in 1..Len(calls) : calls[i] = "checkBasicAuth"
         THEN (IF live THEN n ELSE 0) + 1
         ELSE IF \E i \in 1..Len(calls) : calls[i] = "registerFailedAttempt"
         THEN (IF live THEN n ELSE 0)
         ELSE n
    ELSE IF evicts /\ \E i \in 1..Len(calls) : calls[i] = "registerFailedAttempt" THEN 0
    ELSE n

\* The synchronous part of a fetch that reaches the await with out for a request of clientId.
BeginStep(r, e, out, clientId) ==
    /\ Awaits(out, e)
    /\ RATE_LIMIT_BUCKET' = out.bucket
    /\ configCache' = out.configCache
    /\ lastConfigHash' = out.lastConfigHash
    /\ series' = SeriesAfter(series, RATE_LIMIT_BUCKET, out.calls, clientId, out.subdomain)
    /\ checks' = ChecksAfter(checks, HasLiveEntry(RATE_LIMIT_BUCKET, clientId, out.subdomain),
                             EvictedBy(series, RATE_LIMIT_BUCKET, clientId, out.subdomain),
                             out.calls, series.pair = <<clientId, out.subdomain>>)
    /\ suspended' = Append(suspended, [request |-> r, response |-> out.response])
    /\ last' = [op |-> "await", request |-> r, env |-> e, clientId |-> clientId,
                subdomain |-> out.subdomain, isProtected |-> out.isProtected,
                calls |-> out.calls, isValid |-> out.isValid,
                failsBefore |-> FailsOf(RATE_LIMIT_BUCKET, clientId, out.subdomain),
                response |-> out.response]
    /\ UNCHANGED now

Begin(r, e) ==
    /\ Len(suspended) < MaxSuspended
    /\ BeginStep(r, e, fetch(RATE_LIMIT_BUCKET, configCache, lastConfigHash, r, e), ClientIds[r])

\* Lines 190-194 of fetch: the suspended handler returns its response.
Resume(i) ==
    /\ suspended' = [j \in 1..Len(suspended) - 1 |-> IF j < i THEN suspended[j] ELSE suspended[j + 1]]
    /\ last' = [op |-> "resume", request |-> suspended[i].request,
                response |-> suspended[i].response]
    /\ UNCHANGED <<RATE_LIMIT_BUCKET, configCache, lastConfigHash, now, series, checks>>

\* A fetch that returns before the await.
Direct(r, e, out) == ~Awaits(out, e) /\ FetchStep(r, e, out, ClientIds[r])

NextOverlap ==
    \/ \E f \in OverlapFetches : Begin(f[1], f[2])
    \/ \E i \in 1..Len(suspended) : Resume(i)
    \/ \E f \in OverlapFetches :
          Direct(f[1], f[2], fetch(RATE_LIMIT_BUCKET, configCache, lastConfigHash, f[1], f[2]))
    \/ Tick

SpecOverlap == Init /\ [][NextOverlap]_vars

\* The handler of last ran the sequence on the table: isRateLimited alone when it
\* answered 429, else isRateLimited followed by registerFailedAttempt or clearFailures.
WholeSequence(l) ==
    \/ l.calls = <<"isRateLimited">> /\ l.response.status = 429
    \/ l.calls = <<"isRateLimited", "registerFailedAttempt">>
    \/ l.calls = <<"isRateLimited", "checkBasicAuth", "registerFailedAttempt">>
    \/ l.calls = <<"isRateLimited", "checkBasicAuth", "clearFailures">>

C15_Step ==
    /\ last'.op = "resume" => RATE_LIMIT_BUCKET' = RATE_LIMIT_BUCKET
    /\ (last'.op = "await" /\ Called(last', "isRateLimited")) =>
          /\ WholeSequence(last')
          /\ RATE_LIMIT_BUCKET' = authorizeProtectedSubdomain(RATE_LIMIT_BUCKET, last'.request,
                                                              last'.subdomain, last'.env).bucket
    /\ ( /\ last'.op = "await" /\ Called(last', "checkBasicAuth")
         /\ series.pair = <<last'.clientId, last'.subdomain>>
         /\ HasLiveEntry(RATE_LIMIT_BUCKET, last'.clientId, last'.subdomain) ) =>
          checks < limitFor(last'.clientId)
    /\ checks' <= limitFor(series.pair[1])

\* C15: with handlers overlapping in any way, the table changes only in the step in
\* which a handler runs its whole sequence on it (isRateLimited, then
\* registerFailedAttempt or clearFailures), never when a suspended handler resumes; and
\* for one pair, the calls of checkBasicAuth in the life of its entry (from the request
\* that creates it until it expires, is cleared or is evicted) never exceed
\* limitFor(client).
C15_CheckThenUpdateIsAtomic == [][C15_Step]_vars

\* C15 witness: with two handlers suspended, the pair of the unknown client has had
\* three credential checks in the life of its entry, and the next request is answered 429.
C15_Witness ==
    /\ last.op = "await" /\ last.response.status = 429
    /\ series.pair = <<last.clientId, last.subdomain>>
    /\ checks = MAX_FAILED_ATTEMPTS_UNKNOWN
    /\ Len(suspended) = MaxSuspended

----------------------------------------------------------------------------
(* The configuration cache, getCachedConfig being called with one environment *)
(* after another (as config-cache.test.js does through fetch)                 *)

\* Environments that differ in ALLOWED_HOST_SUFFIXES, in PROTECTED_SUBDOMAINS, in where
\* the text is divided between the two, or in nothing but have no variable at all.
CacheEnvs ==
    [x_a |-> { <<ALLOWED_HOST_SUFFIXES, <<"x", ".", "i", "o">>>>, <<PROTECTED_SUBDOMAINS, <<"a">>>> },
     x_am |-> { <<ALLOWED_HOST_SUFFIXES, <<"x", ".", "i", "o">>>>, <<PROTECTED_SUBDOMAINS, <<"a", ",", "m">>>> },
     y_a |-> { <<ALLOWED_HOST_SUFFIXES, <<"y", ".", "i", "o">>>>, <<PROTECTED_SUBDOMAINS, <<"a">>>> },
     ab_c |-> { <<ALLOWED_HOST_SUFFIXES, <<"a", "b">>>>, <<PROTECTED_SUBDOMAINS, <<"c">>>> },
     a_bc |-> { <<ALLOWED_HOST_SUFFIXES, <<"a">>>>, <<PROTECTED_SUBDOMAINS, <<"b", "c">>>> },
     Aa |-> { <<ALLOWED_HOST_SUFFIXES, <<"A", "a", ".", "i", "o">>>>, <<PROTECTED_SUBDOMAINS, <<"a">>>> },
     BB |-> { <<ALLOWED_HOST_SUFFIXES, <<"B", "B", ".", "i", "o">>>>, <<PROTECTED_SUBDOMAINS, <<"a">>>> },
     bar_left |-> { <<ALLOWED_HOST_SUFFIXES, <<"a", ".", "i", "o", "|", "b">>>>, <<PROTECTED_SUBDOMAINS, <<"c">>>> },
     bar_right |-> { <<ALLOWED_HOST_SUFFIXES, <<"a", ".", "i", "o">>>>, <<PROTECTED_SUBDOMAINS, <<"b", "|", "c">>>> },
     none |-> {}]

CacheEnvIds == DOMAIN CacheEnvs

CacheHashes == [c \in CacheEnvIds |-> getConfigHash(CacheEnvs[c])]

CacheConfigs == [c \in CacheEnvIds |-> ParseConfig(CacheEnvs[c])]

\* The two raw strings of an environment.
RawPair == [c \in CacheEnvIds |-> <<EnvGet(CacheEnvs[c], ALLOWED_HOST_SUFFIXES),
                                    EnvGet(CacheEnvs[c], PROTECTED_SUBDOMAINS)>>]

\* The step of getCachedConfig(env) that leaves out; source is the environment the
\* stored value was parsed from, and previous the environment of the call just before
\* (or the operation just before, when it was no call of getCachedConfig).
CachedConfigStep(c, out, source) ==
    /\ configCache' = out.configCache
    /\ lastConfigHash' = out.lastConfigHash
    /\ last' = [op |-> "getCachedConfig", env |-> c, reparsed |-> out.reparsed,
                returned |-> out.configCache.value,
                source |-> IF out.reparsed THEN c ELSE source,
                previous |-> IF last.op = "getCachedConfig" THEN last.env ELSE last.op]
    /\ UNCHANGED <<RATE_LIMIT_BUCKET, now, series, suspended, checks>>

CallGetCachedConfig(c) ==
    CachedConfigStep(c, getCachedConfigFrom(configCache, lastConfigHash, CacheHashes[c],
                                            CacheConfigs[c]),
                     IF configCache = Null THEN c ELSE last.source)

NextCache ==
    \/ \E c \in CacheEnvIds : CallGetCachedConfig(c)
    \/ InvalidateConfigCache

SpecCache == Init /\ [][NextCache]_vars

C16_Step ==
    ( /\ last'.op = "getCachedConfig"
      /\ configCache # Null
      /\ RawPair[last'.env] # RawPair[last.source] ) =>
        /\ last'.reparsed
        /\ last'.returned = CacheConfigs[last'.env]

\* C16: a getCachedConfig call with a pair of raw strings that differs from the pair
\* the stored value was parsed from returns the configuration freshly parsed from the
\* new pair, pairs that differ only in where the text is divided between the two
\* strings included: a stale configuration is never returned.
C16_AsStated == [][C16_Step]_vars

\* C16 failing input: after getCachedConfig with ALLOWED_HOST_SUFFIXES "Aa.io", the call
\* with "BB.io" returned the configuration of "Aa.io".
C16_Stale ==
    /\ last.op = "getCachedConfig" /\ last.env = "BB" /\ last.source = "Aa"
    /\ ~last.reparsed
    /\ last.returned # CacheConfigs["BB"]

C17_Step ==
    ( /\ last.op = "getCachedConfig" /\ last'.op = "getCachedConfig"
      /\ RawPair[last'.env] = RawPair[last.env] ) =>
        /\ ~last'.reparsed
        /\ last'.returned = last.returned
        /\ configCache' = configCache
        /\ lastConfigHash' = lastConfigHash

\* C17: of two consecutive getCachedConfig calls with identical raw strings, with no
\* invalidateConfigCache in between, the second parses nothing: it returns the stored
\* object and leaves configCache and lastConfigHash as they were.
C17_SecondCallReturnsStored == [][C17_Step]_vars

\* C17 witness: the second of two consecutive calls with the same environment returned
\* the stored configuration without parsing.
C17_Witness ==
    /\ last.op = "getCachedConfig" /\ last.previous = last.env /\ last.env = "x_am"
    /\ ~last.reparsed
    /\ configCache = NotNull(last.returned)

C18_Step ==
    /\ last'.op = "invalidateConfigCache" => configCache' = Null /\ lastConfigHash' = Null
    /\ (last.op = "invalidateConfigCache" /\ last'.op = "getCachedConfig") =>
          /\ last'.reparsed
          /\ last'.returned = CacheConfigs[last'.env]
          /\ configCache' = NotNull(CacheConfigs[last'.env])
          /\ lastConfigHash' = NotNull(CacheHashes[last'.env])

\* C18: invalidateConfigCache sets the stored configuration and the stored hash to
\* null, whatever they were, and the getCachedConfig call after it parses and stores a
\* new object, also when the raw strings are those of the call before the invalidation.
C18_InvalidateForcesReparse == [][C18_Step]_vars

\* C18 witness: a call directly after invalidateConfigCache parsed the configuration anew.
C18_Witness ==
    /\ last.op = "getCachedConfig" /\ last.previous = "invalidateConfigCache"
    /\ last.reparsed
    /\ configCache # Null /\ lastConfigHash # Null

\* s is a literal tail of h: h is some text followed by s.
IsTail(h, s) == \E k \in 0..Len(h) : h = SubSeq(h, 1, k) \o s

\* C19: hostIsAllowed(h, S) is true when S is empty, and otherwise exactly when some
\* element of S is a literal tail of h.
C19_AllowedIffTail ==
    last.op = "hostIsAllowed" =>
        (last.result <=> \/ Len(last.suffixes) = 0
                         \/ \E i \in 1..Len(last.suffixes) : IsTail(last.hostname, last.suffixes[i]))

\* C19 witness: ax.io is allowed by the suffix x.io, of which it is a tail within a
\* label, and a.y.io is not allowed by .x.io and x.io.
C19_Witness ==
    /\ last.op = "hostIsAllowed" /\ last.result
    /\ last.hostname = <<"a", "x", ".", "i", "o">>
    /\ last.suffixes = << <<"x", ".", "i", "o">> >>
    /\ ~hostIsAllowed(<<"a", ".", "y", ".", "i", "o">>,
                      << <<".", "x", ".", "i", "o">>, <<"x", ".", "i", "o">> >>)

\* What precedes the suffix s in h, without one trailing dot.
Before(h, s) ==
    LET sub == SubSeq(h, 1, Len(h) - Len(s))
    IN  IF sub # <<>> /\ sub[Len(sub)] = "." THEN SubSeq(sub, 1, Len(sub) - 1) ELSE sub

\* C20: extractSubdomain(h, S), S being the array passed or the suffixes the raw string
\* stands for, returns what precedes in h the first element of S, in the order of S,
\* that is a tail of h, without exactly one trailing dot, and "" when no element is.
C20_BeforeFirstMatch ==
    last.op = "extractSubdomain" =>
        IF \E i \in 1..Len(last.suffixes) : IsTail(last.hostname, last.suffixes[i])
        THEN \E i \in 1..Len(last.suffixes) :
                /\ IsTail(last.hostname, last.suffixes[i])
                /\ \A j \in 1..(i - 1) : ~IsTail(last.hostname, last.suffixes[j])
                /\ last.result = Before(last.hostname, last.suffixes[i])
        ELSE last.result = <<>>

\* C20 witness: from the raw string "io, x.io", a.x.io gives a.x, before the first
\* suffix .io and not the longer .x.io.
C20_Witness ==
    /\ last.op = "extractSubdomain" /\ ~last.isArray
    /\ last.hostname = <<"a", ".", "x", ".", "i", "o">>
    /\ last.suffixes = << <<".", "i", "o">>, <<".", "x", ".", "i", "o">> >>
    /\ last.result = <<"a", ".", "x">>

\* v is wrapped in brackets around text with a colon.
Bracketed(v) ==
    /\ Len(v) >= 2 /\ v[1] = "[" /\ v[Len(v)] = "]"
    /\ \E i \in 1..Len(v) : v[i] = ":"

\* v is a lower-case suffix: a leading dot, characters of [a-z0-9.-] only, none of
\* "..", ".-", "-.", and neither "." nor "-" at the end.
DomainShaped(v) ==
    /\ Len(v) >= 1 /\ v[1] = "."
    /\ \A i \in 1..Len(v) :
          v[i] \in {"a", "b", "c", "d", "e", "f", "g", "h", "i", "j", "k", "l", "m", "n", "o",
                    "p", "q", "r", "s", "t", "u", "v", "w", "x", "y", "z", "0", "1", "2", "3",
                    "4", "5", "6", "7", "8", "9", ".", "-"}
    /\ \A i \in 1..(Len(v) - 1) :
          /\ ~(v[i] = "." /\ v[i + 1] = ".")
          /\ ~(v[i] = "." /\ v[i + 1] = "-")
          /\ ~(v[i] = "-" /\ v[i + 1] = ".")
    /\ v[Len(v)] # "." /\ v[Len(v)] # "-"

\* C21: every value validateAndNormalizeSuffix returns is a bracketed IPv6 literal or a
\* lower-case suffix with a leading dot, characters of [a-z0-9.-] only, none of "..",
\* ".-", "-.", and neither "." nor "-" at the end; every other input is rejected.
C21_AsStated ==
    (last.op = "validateAndNormalizeSuffix" /\ last.result.ok) =>
        Bracketed(last.result.value) \/ DomainShaped(last.result.value)

\* C21 failing input: "a-" is returned as ".a-", which ends with a hyphen.
C21_TrailingHyphen ==
    /\ last.op = "validateAndNormalizeSuffix"
    /\ last.suffix = <<"a", "-">>
    /\ last.result = [ok |-> TRUE, value |-> <<".", "a", "-">>]

\* The token without its whitespace.
Stripped(token) == SelectSeq(token, LAMBDA c : c # " ")

\* The token is kept: it is not empty without its whitespace, and validateAndNormalizeSuffix
\* accepts it.
Kept(token) == Stripped(token) # <<>> /\ validateAndNormalizeSuffix(Stripped(token)).ok

\* The normalised forms of the kept tokens, in their order.
RECURSIVE KeptForms(_)
KeptForms(tokens) ==
    IF tokens = <<>> THEN <<>>
    ELSE (IF Kept(Head(tokens))
          THEN <<validateAndNormalizeSuffix(Stripped(Head(tokens))).value>>
          ELSE <<>>) \o KeptForms(Tail(tokens))

\* C22: parseCommaList returns, in the order of the input, exactly the normalised forms
\* of the tokens validateAndNormalizeSuffix accepts once their whitespace is stripped;
\* a rejected token is skipped and the others are kept; empty or absent input gives
\* the empty sequence.
C22_KeepsAcceptedTokensInOrder ==
    last.op = "parseCommaList" =>
        /\ last.result = KeptForms(last.tokens)
        /\ (last.absent \/ last.tokens = <<>>) => last.result = <<>>

\* C22 witness: of " X.io ", "a..b", ".y.io" the second is skipped and the others are
\* returned in their order.
C22_Witness ==
    /\ last.op = "parseCommaList"
    /\ last.tokens = << <<" ", "X", ".", "i", "o", " ">>, <<"a", ".", ".", "b">>,
                        <<".", "y", ".", "i", "o">> >>
    /\ last.result = << <<".", "x", ".", "i", "o">>, <<".", "y", ".", "i", "o">> >>

\* C23: constantTimeEqual(a, b) is true exactly when a and b are strings of the same
\* length with the same character at every position, false when either is not a
\* string, and equal to constantTimeEqual(b, a).
C23_EqualIffSameString ==
    last.op = "constantTimeEqual" =>
        /\ last.result <=> /\ last.a # Undefined /\ last.b # Undefined
                            /\ Len(last.a) = Len(last.b)
                            /\ \A i \in 1..Len(last.a) : last.a[i] = last.b[i]
        /\ (last.a = Undefined \/ last.b = Undefined) => ~last.result
        /\ last.result = last.swapped

\* C23 witness: aAb equals aAb, and was found different from its prefix aA in another call.
C23_Witness ==
    /\ last.op = "constantTimeEqual" /\ last.result
    /\ last.a = <<"a", "A", "b">> /\ last.b = <<"a", "A", "b">>
    /\ ~constantTimeEqual(<<"a", "A", "b">>, <<"a", "A">>)

\* C24: for strings a and b, constantTimeEqual(a, b) executes max(len(a), len(b))
\* iterations of its loop, wherever the first difference lies and whether or not the
\* lengths differ.
C24_IterationsAreMaxLength ==
    (last.op = "constantTimeEqual" /\ last.a # Undefined /\ last.b # Undefined) =>
        last.iterations = IF Len(last.a) >= Len(last.b) THEN Len(last.a) ELSE Len(last.b)

\* C24 witness: comparing bab with a, different at the first position and in length,
\* took three iterations.
C24_Witness ==
    /\ last.op = "constantTimeEqual"
    /\ last.a = <<"b", "a", "b">> /\ last.b = <<"a">>
    /\ last.iterations = 3 /\ ~last.result

\* C25: for a well-formed header, every comparison of checkBasicAuth with an expected
\* pair applies constantTimeEqual to the user and to the pass, the pass also when the
\* user differs.
C25_AsStated ==
    last.op = "checkBasicAuth" =>
        \A i \in 1..Len(last.compared) : last.compared[i] = <<"user", "pass">>

\* C25 failing input: against the pair a:1, the header of b:1 had its user compared and
\* its pass not.
C25_PassSkipped ==
    /\ last.op = "checkBasicAuth"
    /\ last.user = <<"b">> /\ last.pass = <<"1">>
    /\ last.pairs = << [user |-> <<"a">>, pass |-> <<"1">>] >>
    /\ last.compared = << <<"user">> >>

\* C26: checkBasicAuth returns false for a header that is absent, empty or does not
\* begin with "Basic ", and for a payload whose decoded text holds no ":"; otherwise
\* the text is split at its first ":" only: the header is accepted exactly when the
\* text is the expected user, without ":", then ":", then the expected pass, which may
\* hold ":".
C26_SplitsAtFirstColon ==
    last.op = "checkBasicAuthHeader" =>
        IF last.kind # "basic" THEN ~last.result
        ELSE IF \A i \in 1..Len(last.text) : last.text[i] # ":" THEN ~last.result
        ELSE last.result <=> /\ last.text = last.user \o <<":">> \o last.pass
                             /\ \A i \in 1..Len(last.user) : last.user[i] # ":"

\* C26 witness: the header of a:1:2 is accepted for user a with pass 1:2.
C26_Witness ==
    /\ last.op = "checkBasicAuthHeader" /\ last.kind = "basic" /\ last.result
    /\ last.text = <<"a", ":", "1", ":", "2">>
    /\ last.user = <<"a">> /\ last.pass = <<"1", ":", "2">>

----------------------------------------------------------------------------
(* Claims about the responses of fetch *)

\* The requests for a protected tenant with a target that are not authorized: no header,
\* another scheme, a payload that is not base64, a payload without colon, a header of
\* more than MAX_AUTH_HEADER_LENGTH characters, a wrong user, a wrong password, and tenants
\* without usable credentials (blank user, empty list, list with a blank user, password only).
Unauthorized ==
    { <<"a_none", "main">>, <<"a_bearer", "main">>, <<"a_garbage", "main">>,
      <<"a_nocolon", "main">>, <<"a_spaced", "main">>, <<"a_user", "main">>,
      <<"a_wrong", "main">>, <<"w_fb", "main">>, <<"e_fb", "main">>, <<"l_bo", "main">>,
      <<"a_al", "bare">> }

\* C27 as stated: every request of Unauthorized is answered by the same 401.
C27_AsStated ==
    (last.op = "fetch" /\ <<last.request, last.env>> \in Unauthorized) =>
        last.response = respond("Not authorized", 401, authChallengeHeaders)

C27_Step ==
    ( /\ last'.op = "fetch"
      /\ <<last'.request, last'.env>> \in Unauthorized
      /\ ~Limited(RATE_LIMIT_BUCKET, last'.clientId, last'.subdomain) ) =>
        last'.response = respond("Not authorized", 401, authChallengeHeaders)

\* C27: for a protected tenant and a client that is not rate limited for it, the
\* responses to a missing header, a wrong scheme, a payload that is not base64, a payload
\* without colon, an oversized header, a wrong user, a wrong password and a tenant without
\* usable credentials are one and the same: status 401, body "Not authorized" and the
\* headers of authChallengeHeaders.
C27_UniformRefusal == [][C27_Step]_vars

\* C27 witness: a payload that is not base64 is refused with the 401 for a client with
\* one earlier failure.
C27_Witness ==
    /\ last.op = "fetch" /\ last.request = "a_garbage" /\ last.failsBefore = 1
    /\ last.response.status = 401
    /\ last.response.headers.WWWAuthenticate = "Basic realm=\"Secure Redirect\", charset=\"UTF-8\""

C28_Step ==
    ( /\ ToProtected(last')
      /\ ~Truthy(RedirectTargets[last'.subdomain, last'.env]) ) =>
        /\ last'.response = respond("Not found", 404, securityHeaders(<<>>))
        /\ last'.calls = <<>>
        /\ RATE_LIMIT_BUCKET' = RATE_LIMIT_BUCKET

\* C28: a request for a protected subdomain without redirect target is answered 404
\* whatever its Authorization header and whatever the credentials of the subdomain,
\* without a call of isRateLimited, registerFailedAttempt, clearFailures or
\* checkBasicAuth, and with the rate-limit table left as it was.
C28_NoTargetIsNotFound == [][C28_Step]_vars

\* C28 witness: n has no target; it was asked for with the fallback pair, which it would
\* accept, while the table held an entry, and asked for without header and with a pair
\* it does not expect.
C28_Witness ==
    /\ ToProtected(last) /\ last.request = "n_fb" /\ last.env = "main"
    /\ last.response.status = 404
    /\ Carries["n_fb", last.subdomain, "main"]
    /\ ~Carries["nolink", last.subdomain, "main"]
    /\ ~Carries["n_none", last.subdomain, "main"]
    /\ RATE_LIMIT_BUCKET # <<>>

\* The statuses of the responses of the worker.
Statuses == {301, 302, 401, 404, 405, 429}

\* C29 as stated: every call of fetch returns a response with a status of Statuses,
\* and no exception escapes, whatever the request and the configuration.
C29_AsStated ==
    last.op = "fetch" => last.response # Thrown /\ last.response.status \in Statuses

\* C29 failing input: LINK_B is "oops"; the request for the public subdomain b ended
\* with the TypeError of Response.redirect, which fetch does not catch.
C29_InvalidTarget ==
    /\ last.op = "fetch" /\ last.request = "b_none" /\ last.env = "main"
    /\ RedirectTargets[last.subdomain, "main"] = <<"o", "o", "p", "s">>
    /\ last.response = Thrown

\* C30 as stated: every response of fetch carries every header of securityHeaders.
C30_AsStated ==
    (last.op = "fetch" /\ last.response # Thrown) =>
        \A h \in DOMAIN securityHeaders(<<>>) :
            /\ h \in DOMAIN last.response.headers
            /\ last.response.headers[h] = securityHeaders(<<>>)[h]

\* C30 failing input: the request over http was answered 301 with a Location and
\* nothing else.
C30_UpgradeWithoutHeaders ==
    /\ last.op = "fetch" /\ last.request = "plain" /\ last.response.status = 301
    /\ DOMAIN last.response.headers = {"Location"}

----------------------------------------------------------------------------
(* Further claims about the rate limiter *)

\* The Retry-After value rateLimitRetryHeaders reports for the pair at the present time.
RetryAfter(p) == rateLimitRetryHeaders(RATE_LIMIT_BUCKET, p[1], p[2]).RetryAfter

\* r is the least integer with r * 1000 >= ms.
IsCeilingOfSeconds(r, ms) == r * 1000 >= ms /\ (r - 1) * 1000 < ms

C31_Value ==
    \A p \in Pairs :
        LET key == makeRateLimitKey(p[1], p[2])
        IN  /\ RetryAfter(p) \in 0..600
            /\ ~BucketHas(RATE_LIMIT_BUCKET, key) => RetryAfter(p) = 0
            /\ BucketHas(RATE_LIMIT_BUCKET, key) =>
                    LET left == BucketGet(RATE_LIMIT_BUCKET, key).resetAt - now
                    IN  IsCeilingOfSeconds(RetryAfter(p), IF left > 0 THEN left ELSE 0)

C31_Step ==
    \A p \in Pairs :
        /\ ( /\ StepIs("registerFailedAttempt", p)
             /\ ~LiveEntry(RATE_LIMIT_BUCKET, p[1], p[2]) ) =>
                rateLimitRetryHeaders(RATE_LIMIT_BUCKET', p[1], p[2]).RetryAfter \in 1..600
        /\ ( /\ last'.op = "tick"
             /\ BucketHas(RATE_LIMIT_BUCKET, makeRateLimitKey(p[1], p[2])) ) =>
                RetryAfter(p)' <= RetryAfter(p)

\* C31: Retry-After is the ceiling of max(0, resetAt - now) / 1000 when the key has an
\* entry and 0 when it has none; it is an integer of 0..600, it lies in 1..600 right
\* after the registration that creates the entry, and it does not increase when time
\* advances.
C31_RetryAfterIsRemainingWindow == []C31_Value /\ [][C31_Step]_vars

\* C31 witness: one millisecond before the end of its window, a key has Retry-After 1,
\* after the clock advanced.
C31_Witness ==
    /\ last.op = "tick"
    /\ \E p \in Pairs :
          /\ BucketHas(RATE_LIMIT_BUCKET, makeRateLimitKey(p[1], p[2]))
          /\ BucketGet(RATE_LIMIT_BUCKET, makeRateLimitKey(p[1], p[2])).resetAt - now = 1
          /\ RetryAfter(p) = 1

----------------------------------------------------------------------------
(* Claims about the client identifier *)

\* The header gives no usable client identifier: it is not set, empty or longer than 64.
Unusable(ip) == ip = Undefined \/ ip = <<>> \/ Len(ip) > 64

\* C32 as stated: the result is "unknown" exactly when the header is not set, empty or
\* longer than 64 characters.
C32_AsStated ==
    last.op = "getClientIdFromCloudflare" => (last.result = UNKNOWN <=> Unusable(last.ip))

\* C32: getClientIdFromCloudflare returns "unknown" when the header is not set, empty
\* or longer than 64 characters, and the header value unchanged otherwise (64
\* characters are kept), so that the result is "unknown" exactly when the header is
\* unusable or is the text "unknown" itself; limitFor gives the result
\* MAX_FAILED_ATTEMPTS_UNKNOWN in these cases and MAX_FAILED_ATTEMPTS in all others.
C32_UnknownWhenUnusable ==
    last.op = "getClientIdFromCloudflare" =>
        /\ Unusable(last.ip) => last.result = UNKNOWN
        /\ ~Unusable(last.ip) => last.result = last.ip
        /\ last.result = UNKNOWN <=> (Unusable(last.ip) \/ last.ip = UNKNOWN)
        /\ last.limit = IF Unusable(last.ip) \/ last.ip = UNKNOWN
                        THEN MAX_FAILED_ATTEMPTS_UNKNOWN
                        ELSE MAX_FAILED_ATTEMPTS
        /\ MAX_FAILED_ATTEMPTS_UNKNOWN < MAX_FAILED_ATTEMPTS

\* C32 witness: a header of exactly 64 characters is kept and has the higher threshold.
C32_Witness ==
    /\ last.op = "getClientIdFromCloudflare"
    /\ Len(last.ip) = 64 /\ last.result = last.ip /\ last.limit = MAX_FAILED_ATTEMPTS

----------------------------------------------------------------------------
(* Claims about the order of the checks of fetch *)

\* The host name of the request ends with an allowed suffix of the environment, or the
\* environment allows every host.
HostAllowed(r, e) ==
    LET suffixes == ParsedConfigs[e].allowedHostSuffixes
    IN  Len(suffixes) = 0 \/ \E i \in 1..Len(suffixes) : IsTail(Hostnames[r], suffixes[i])

\* The method of the request is GET or HEAD, in any case of the letters.
MethodAllowed(r) ==
    \E m \in {<<"G", "E", "T">>, <<"H", "E", "A", "D">>} :
        /\ Len(Requests[r].method) = Len(m)
        /\ \A i \in 1..Len(m) : Requests[r].method[i] \in {m[i], LowerOf(m[i])}

\* The status the order of the claim gives the request r under e, for the subdomain s
\* it resolves to, with the rate-limit table as it is: that of the first check to fail.
StatusInOrder(r, e, s, clientId) ==
    IF Requests[r].url.protocol = "http:" THEN 301
    ELSE IF ~MethodAllowed(r) THEN 405
    ELSE IF ~HostAllowed(r, e) THEN 404
    ELSE IF s \in ParsedConfigs[e].protectedSubdomains /\ ~Truthy(RedirectTargets[s, e]) THEN 404
    ELSE IF s \in ParsedConfigs[e].protectedSubdomains /\ Unconfigured[s, e] THEN 401
    ELSE IF s \in ParsedConfigs[e].protectedSubdomains
            /\ Limited(RATE_LIMIT_BUCKET, clientId, s) THEN 429
    ELSE IF s \in ParsedConfigs[e].protectedSubdomains
            /\ Len(AuthorizationHeaders[r]) > 4096 THEN 401
    ELSE IF s \in ParsedConfigs[e].protectedSubdomains /\ ~Carries[r, s, e] THEN 401
    ELSE IF Truthy(RedirectTargets[s, e]) THEN 302
    ELSE 404

\* The stage at which the order of the claim stops the request.
StageInOrder(r, e, s, clientId) ==
    IF Requests[r].url.protocol = "http:" THEN "scheme"
    ELSE IF ~MethodAllowed(r) THEN "method"
    ELSE IF ~HostAllowed(r, e) THEN "host"
    ELSE IF s \in ParsedConfigs[e].protectedSubdomains /\ ~Truthy(RedirectTargets[s, e]) THEN "target"
    ELSE IF s \in ParsedConfigs[e].protectedSubdomains /\ Unconfigured[s, e] THEN "configured"
    ELSE IF s \in ParsedConfigs[e].protectedSubdomains
            /\ Limited(RATE_LIMIT_BUCKET, clientId, s) THEN "limited"
    ELSE IF s \in ParsedConfigs[e].protectedSubdomains
            /\ Len(AuthorizationHeaders[r]) > 4096 THEN "length"
    ELSE IF s \in ParsedConfigs[e].protectedSubdomains /\ ~Carries[r, s, e] THEN "credentials"
    ELSE IF s \in ParsedConfigs[e].protectedSubdomains THEN "authenticated"
    ELSE "public"

\* The subdomain the host name of r stands for under e; "" when fetch resolved none.
SubdomainOf(l) == IF l.subdomain = Undefined THEN <<>> ELSE l.subdomain

C33_Step ==
    last'.op = "fetch" =>
        LET stage == StageInOrder(last'.request, last'.env, SubdomainOf(last'), last'.clientId)
        IN  /\ last'.response.status
                  = StatusInOrder(last'.request, last'.env, SubdomainOf(last'), last'.clientId)
            /\ stage \in {"scheme", "method"} =>
                    configCache' = configCache /\ lastConfigHash' = lastConfigHash
            /\ stage \notin {"length", "credentials", "authenticated"} =>
                    RATE_LIMIT_BUCKET' = RATE_LIMIT_BUCKET
            /\ stage \in {"scheme", "method", "host", "target", "configured", "public"} =>
                    last'.calls = <<>>
            /\ stage = "limited" => last'.calls = <<"isRateLimited">>
            /\ stage = "length" => ~Called(last', "checkBasicAuth")

\* C33 as stated: fetch answers every request with the status of the first failing
\* check in the order scheme (301), method (405), host (404), protected without target
\* (404), credentials not configured (401), rate limited (429), header over 4096 (401),
\* credentials invalid (401), else 302 with a target and 404 without; a request stopped
\* at a stage has none of the effects of the later ones: the configuration cache is as
\* it was for the first two, and the rate-limit table for all but the two failing
\* credential stages and the successful authentication.
C33_AsStated == [][C33_Step]_vars

\* C33 failing input: all checks passed for the public subdomain b, which has a target,
\* and the answer is not the 302 of the last stage.
C33_NoRedirect ==
    /\ last.op = "fetch" /\ last.request = "b_none"
    /\ StageInOrder("b_none", "main", last.subdomain, last.clientId) = "public"
    /\ Truthy(RedirectTargets[last.subdomain, "main"])
    /\ last.response.status # 302

----------------------------------------------------------------------------
(* Claims about the protection of redirect targets *)

\* The subdomain has the LINK_<KEY> of an entry of PROTECTED_SUBDOMAINS of e.
SharesKeyWithProtected(subdomain, e) ==
    \E q \in ParsedConfigs[e].protectedSubdomains :
        NormalizedSubdomain(q) = NormalizedSubdomain(subdomain)

\* C34 as stated: a 302 carrying the target of a protected subdomain is returned to
\* authenticated requests only: every host name whose subdomain has the LINK_<KEY> of
\* an entry of PROTECTED_SUBDOMAINS is treated as protected, and is redirected only
\* after checkBasicAuth accepted its credentials.
C34_AsStated ==
    (/\ last.op = "fetch"
     /\ last.response.status = 302
     /\ SharesKeyWithProtected(last.subdomain, last.env))
        => /\ last.isProtected
           /\ last.isValid = TRUE
           /\ Called(last, "checkBasicAuth")

\* C34 failing input: a request without credentials to a host whose subdomain is not
\* an entry of PROTECTED_SUBDOMAINS as written, but has the key of one, is answered
\* with the target of that entry.
C34_TargetWithoutAuthentication ==
    /\ last.op = "fetch" /\ last.env = "alias"
    /\ last.request \in {"c_d_none", "g_none"}
    /\ Requests[last.request].authorization = Undefined
    /\ last.subdomain \notin ParsedConfigs["alias"].protectedSubdomains
    /\ SharesKeyWithProtected(last.subdomain, "alias")
    /\ ~last.isProtected
    /\ last.response.status = 302
    /\ \E q \in ParsedConfigs["alias"].protectedSubdomains :
            last.response.headers.Location = getRedirectTarget(q, AliasEnv)

----------------------------------------------------------------------------
(* Claims about the failure counts the requests leave in the table *)

\* The requests of tenant a without an address and with one, each with wrong and
\* with right credentials.
CountFetches == { <<r, "main">> : r \in {"a_wrong", "a_al", "a_ip_wrong", "a_ip_al"} }

NextCounts ==
    \/ \E f \in CountFetches : Fetch(f[1], f[2])
    \/ Tick

\* The worker under the requests of two clients of one tenant, each up to its threshold.
SpecCounts == Init /\ [][NextCounts]_vars

\* The clients whose key for some subdomain is the key of the entry.
ClientsOfKey(key) ==
    { ClientIds[r] : r \in { q \in RequestIds : \E s \in Subdomains :
                                 key = makeRateLimitKey(ClientIds[q], s) } }

\* C35: in every state the requests can bring about, every entry of the rate-limit
\* table holds at least 1 failure and at most limitFor(client) failures, for the
\* client of its key.
C35_CountWithinThreshold ==
    \A i \in 1..Len(RATE_LIMIT_BUCKET) :
        /\ ClientsOfKey(RATE_LIMIT_BUCKET[i].key) # {}
        /\ \A c \in ClientsOfKey(RATE_LIMIT_BUCKET[i].key) :
              /\ RATE_LIMIT_BUCKET[i].fails >= 1
              /\ RATE_LIMIT_BUCKET[i].fails <= limitFor(c)

\* C35 witness: a request with wrong credentials of a client at its threshold was
\* answered 429 and the count of its entry stayed at the threshold, for the unknown
\* client and for a client with an address.
C35_Witness ==
    /\ last.op = "fetch" /\ last.response.status = 429
    /\ last.request \in {"a_wrong", "a_ip_wrong"}
    /\ last.failsBefore = limitFor(last.clientId)
    /\ FailsOf(RATE_LIMIT_BUCKET, last.clientId, last.subdomain) = limitFor(last.clientId)
    /\ \E i \in 1..Len(RATE_LIMIT_BUCKET) : RATE_LIMIT_BUCKET[i].fails = MAX_FAILED_ATTEMPTS
    /\ \E i \in 1..Len(RATE_LIMIT_BUCKET) : RATE_LIMIT_BUCKET[i].fails = MAX_FAILED_ATTEMPTS_UNKNOWN

----------------------------------------------------------------------------
(* Claims about the window of an entry *)

\* The series of the observed pair is followed from its first failure and its entry
\* was not evicted since.
SeriesIntact == series.tracked /\ series.n > 0 /\ ~series.evicted

\* The entry of the observed pair expires one window after the first failure of its series.
C36_Value ==
    (SeriesIntact /\ BucketHas(RATE_LIMIT_BUCKET, ObservedKey)) =>
        BucketGet(RATE_LIMIT_BUCKET, ObservedKey).resetAt = series.since + RATE_LIMIT_WINDOW_MS

C36_Step ==
    /\ RATE_LIMIT_BUCKET' # RATE_LIMIT_BUCKET =>
          \A p \in Pairs :
              LET i == EntryIndex(RATE_LIMIT_BUCKET, makeRateLimitKey(p[1], p[2]))
                  j == EntryIndex(RATE_LIMIT_BUCKET', makeRateLimitKey(p[1], p[2]))
              IN  j # 0 =>
                    IF i # 0 /\ ~(StepIs("registerFailedAttempt", p)
                                  /\ now > RATE_LIMIT_BUCKET[i].resetAt)
                    THEN RATE_LIMIT_BUCKET'[j].resetAt = RATE_LIMIT_BUCKET[i].resetAt
                    ELSE /\ StepIs("registerFailedAttempt", p)
                         /\ RATE_LIMIT_BUCKET'[j] = FreshEntry(p)
    /\ (/\ StepIs("isRateLimited", series.pair)
         /\ SeriesIntact
         /\ now > series.since + RATE_LIMIT_WINDOW_MS) => last'.result = FALSE

\* C36: the window of an entry is fixed at its creation: resetAt is the creation time
\* plus RATE_LIMIT_WINDOW_MS and no later registerFailedAttempt or isRateLimited
\* changes it; a key whose first failure of a window was at time t is not reported
\* rate limited after t + RATE_LIMIT_WINDOW_MS on account of that window, whatever
\* the number of failures registered meanwhile.
C36_WindowIsFixed == []C36_Value /\ [][C36_Step]_vars

\* C36 witness: a failure registered later than the first of its series left resetAt
\* one window after the first, and the key reached its threshold.
C36_Witness ==
    /\ last.op = "registerFailedAttempt"
    /\ <<last.clientId, last.subdomain>> = series.pair
    /\ SeriesIntact
    /\ now > series.since
    /\ BucketHas(RATE_LIMIT_BUCKET, ObservedKey)
    /\ BucketGet(RATE_LIMIT_BUCKET, ObservedKey).fails = ObservedLimit
    /\ BucketGet(RATE_LIMIT_BUCKET, ObservedKey).resetAt = series.since + RATE_LIMIT_WINDOW_MS

----------------------------------------------------------------------------
(* Claims about the Retry-After of the 429 *)

\* C37 as stated: whenever a request is answered 429, the Retry-After sent with it is
\* at least 1 and at most 600; no key is reported rate limited by isRateLimited while
\* the remaining window computed for the header is 0 seconds.
C37_AsStated ==
    (last.op = "fetch" /\ last.response.status = 429) =>
        /\ last.response.headers.RetryAfter \in 1..600
        /\ Limited(RATE_LIMIT_BUCKET, last.clientId, last.subdomain) =>
                remainingWindowSeconds(RATE_LIMIT_BUCKET, last.clientId, last.subdomain) >= 1

\* C37 failing input: a request arriving at the very millisecond resetAt of an entry
\* at its threshold is answered 429 with Retry-After 0.
C37_RetryAfterZero ==
    /\ last.op = "fetch" /\ last.response.status = 429
    /\ last.calls = <<"isRateLimited">>
    /\ BucketHas(RATE_LIMIT_BUCKET, makeRateLimitKey(last.clientId, last.subdomain))
    /\ BucketGet(RATE_LIMIT_BUCKET, makeRateLimitKey(last.clientId, last.subdomain)).resetAt = now
    /\ last.failsBefore >= limitFor(last.clientId)
    /\ last.response.headers.RetryAfter = 0

----------------------------------------------------------------------------
(* Claims about the isolation of the pairs *)

\* Two pairs of a client id and a subdomain that differ in where the "::" stands: the
\* unknown client with subdomain x::a, and the client unknown::x with subdomain a.
KeyPairs ==
    { <<UNKNOWN, <<"x", ":", ":", "a">> >>,
      <<UNKNOWN \o <<":", ":", "x">>, <<"a">> >> }

NextKeys ==
    \/ \E p \in KeyPairs : CallIsRateLimited(p[1], p[2])
    \/ \E p \in KeyPairs : CallRegisterFailedAttempt(p[1], p[2])
    \/ \E p \in KeyPairs : CallClearFailures(p[1], p[2])
    \/ Tick

\* The rate limiter under direct calls for the pairs of KeyPairs.
SpecKeys == InitObserving(<<UNKNOWN, <<"x", ":", ":", "a">> >>) /\ [][NextKeys]_vars

\* What the table holds for the pair: its failure count, its resetAt, and what
\* isRateLimited returns for it.
StateOf(bucket, p) ==
    [fails |-> FailsOf(bucket, p[1], p[2]),
     resetAt |-> IF BucketHas(bucket, makeRateLimitKey(p[1], p[2]))
                 THEN BucketGet(bucket, makeRateLimitKey(p[1], p[2])).resetAt ELSE 0,
     limited |-> isRateLimited(bucket, p[1], p[2])]

C38_Step ==
    \A p \in KeyPairs \cup Pairs : \A q \in (KeyPairs \cup Pairs) \ {p} :
        /\ makeRateLimitKey(p[1], p[2]) # makeRateLimitKey(q[1], q[2])
        /\ (\/ StepIs("isRateLimited", p)
            \/ StepIs("registerFailedAttempt", p)
            \/ StepIs("clearFailures", p)) =>
                /\ StateOf(RATE_LIMIT_BUCKET', q) = StateOf(RATE_LIMIT_BUCKET, q)
                /\ Limited(RATE_LIMIT_BUCKET, q[1], q[2]) => Limited(RATE_LIMIT_BUCKET', q[1], q[2])

\* C38 as stated: distinct pairs (client, subdomain) never share a table key, and
\* isRateLimited, registerFailedAttempt and clearFailures applied to one pair change
\* neither the failure count, nor the resetAt, nor the isRateLimited result of another
\* pair; a rate-limited key stays rate limited until its own window expires or its own
\* failures are cleared.
C38_AsStated == [][C38_Step]_vars

\* C38 failing input: failures registered for the client unknown::x on subdomain a, below
\* the threshold of that client, have made the unknown client rate limited on subdomain
\* x::a, for which no failure was registered.
C38_SharedKey ==
    /\ last.op = "registerFailedAttempt"
    /\ last.clientId = UNKNOWN \o <<":", ":", "x">> /\ last.subdomain = <<"a">>
    /\ series.pair = <<UNKNOWN, <<"x", ":", ":", "a">> >> /\ series.n = 0
    /\ ~isRateLimited(RATE_LIMIT_BUCKET, last.clientId, last.subdomain)
    /\ isRateLimited(RATE_LIMIT_BUCKET, UNKNOWN, <<"x", ":", ":", "a">>)
    /\ Len(RATE_LIMIT_BUCKET) = 1

----------------------------------------------------------------------------
(* Claims about the host filter under the parsed configuration *)

\* C39 as stated: for the suffixes parsed from a raw ALLOWED_HOST_SUFFIXES with at
\* least one token that is not empty, a host name is allowed only if it ends with a
\* validated suffix of that string; a string whose tokens are all invalid does not
\* give the policy that allows every host.
C39_AsStated ==
    (/\ last.op = "resolve"
     /\ \E i \in 1..Len(last.tokens) : Stripped(last.tokens[i]) # <<>>) =>
        /\ last.allowed =>
              \E i \in 1..Len(KeptForms(last.tokens)) :
                  IsTail(toLowerCase(last.hostname), KeptForms(last.tokens)[i])
        /\ (\A i \in 1..Len(last.tokens) : ~Kept(last.tokens[i])) => ~last.allowed

\* C39 failing input: ALLOWED_HOST_SUFFIXES = "a..b,-a", both tokens invalid: no suffix
\* is left and the host a.y.io is allowed.
C39_AllInvalidAllowsAll ==
    /\ last.op = "resolve"
    /\ last.tokens = << <<"a", ".", ".", "b">>, <<"-", "a">> >>
    /\ \A i \in 1..Len(last.tokens) : Stripped(last.tokens[i]) # <<>> /\ ~Kept(last.tokens[i])
    /\ last.hostname = <<"a", ".", "y", ".", "i", "o">>
    /\ last.allowedHostSuffixes = <<>>
    /\ last.allowed

\* C40: with an empty allowed-suffix list every host name is allowed and resolves to
\* the subdomain "", hence to the key LINK_; the protected set never holds "", empty
\* tokens being dropped when it is parsed; so under the allow-all policy no request is
\* treated as protected, whatever PROTECTED_SUBDOMAINS lists.
C40_AllowAllProtectsNothing ==
    last.op = "resolve" =>
        /\ <<>> \notin last.protectedSubdomains
        /\ Len(last.allowedHostSuffixes) = 0 =>
              /\ last.allowed
              /\ last.subdomain = <<>>
              /\ last.key = <<"L", "I", "N", "K", "_">>
              /\ ~last.isProtected

\* C40 witness: no suffix is configured and PROTECTED_SUBDOMAINS is "a,,m": the request
\* to A.x.io resolves to the subdomain "" and is not protected, the protected set being
\* a and m.
C40_Witness ==
    /\ last.op = "resolve"
    /\ last.tokens = <<>> /\ last.allowedHostSuffixes = <<>>
    /\ last.protected = <<"a", ",", ",", "m">>
    /\ last.protectedSubdomains = {<<"a">>, <<"m">>}
    /\ last.hostname = <<"A", ".", "x", ".", "i", "o">>
    /\ last.subdomain = <<>> /\ ~last.isProtected
    /\ last.key = <<"L", "I", "N", "K", "_">>

====
